---- MODULE Spec2Model ----
\* A model of the daily translation service (ramaiguy/dailytranslator):
\* the text catalog (TextManager), the user directory and progress store
\* (UserManager), the reply parser (MessagingService.process_reply) and the
\* application operations of TranslationServiceApp that tie them together.
\*
\* Python strings that the code inspects character by character (reply bodies,
\* translation texts) are sequences of one-character strings; strings that the
\* code only compares for equality (ids, contacts) are TLA+ strings; a title
\* or a subject line is a sequence of tokens.
EXTENDS Integers, Sequences, FiniteSets, TLC

\* ---------------------------------------------------------------- bounds

\* Daily cycles the model runs (the clock read by datetime.now() ticks once
\* per cycle).
MaxCycles == 2

\* Replies the model routes.
MaxReplies == 1

\* ------------------------------------------------------- Python helpers

\* Python's None.
None == "None"

\* Python truthiness of an Optional[str] contact field.
Truthy(x) == x # None /\ x # ""

\* range(a, b) as a list.
Range(a, b) == [k \in 1..(IF b > a THEN b - a ELSE 0) |-> a + k - 1]

Min(a, b) == IF a < b THEN a ELSE b

Max(a, b) == IF a > b THEN a ELSE b

\* A slice bound as Python normalises it for a list of length n: a negative
\* bound counts from the end, and the result is clamped to 0..n.
SliceBound(i, n) == IF i < 0 THEN Max(i + n, 0) ELSE Min(i, n)

\* seq[start:end] with Python's semantics (0-based, end exclusive, negative
\* bounds counted from the end, an empty list when the bounds cross).
PySlice(seq, start, end) ==
    LET lo == SliceBound(start, Len(seq))
        hi == SliceBound(end, Len(seq))
    IN  IF hi > lo THEN SubSeq(seq, lo + 1, hi) ELSE <<>>

\* Whether seq[i] raises IndexError (Python list indexing, negative i allowed).
IndexErrorAt(seq, i) == i >= Len(seq) \/ i < 0 - Len(seq)

\* ------------------------------------------------------------ characters

\* A character is a string: itself when its code point is at most U+00FF,
\* and the name of its code point, "U+0663", beyond that.

\* The decimal digits beyond ASCII (Unicode category Nd), one row per script,
\* each row in the order of the values 0 to 9.
UnicodeDecimalDigits ==
    <<
       <<"U+0660", "U+0661", "U+0662", "U+0663", "U+0664", "U+0665", "U+0666", "U+0667", "U+0668", "U+0669">>,
       <<"U+06F0", "U+06F1", "U+06F2", "U+06F3", "U+06F4", "U+06F5", "U+06F6", "U+06F7", "U+06F8", "U+06F9">>,
       <<"U+07C0", "U+07C1", "U+07C2", "U+07C3", "U+07C4", "U+07C5", "U+07C6", "U+07C7", "U+07C8", "U+07C9">>,
       <<"U+0966", "U+0967", "U+0968", "U+0969", "U+096A", "U+096B", "U+096C", "U+096D", "U+096E", "U+096F">>,
       <<"U+09E6", "U+09E7", "U+09E8", "U+09E9", "U+09EA", "U+09EB", "U+09EC", "U+09ED", "U+09EE", "U+09EF">>,
       <<"U+0A66", "U+0A67", "U+0A68", "U+0A69", "U+0A6A", "U+0A6B", "U+0A6C", "U+0A6D", "U+0A6E", "U+0A6F">>,
       <<"U+0AE6", "U+0AE7", "U+0AE8", "U+0AE9", "U+0AEA", "U+0AEB", "U+0AEC", "U+0AED", "U+0AEE", "U+0AEF">>,
       <<"U+0B66", "U+0B67", "U+0B68", "U+0B69", "U+0B6A", "U+0B6B", "U+0B6C", "U+0B6D", "U+0B6E", "U+0B6F">>,
       <<"U+0BE6", "U+0BE7", "U+0BE8", "U+0BE9", "U+0BEA", "U+0BEB", "U+0BEC", "U+0BED", "U+0BEE", "U+0BEF">>,
       <<"U+0C66", "U+0C67", "U+0C68", "U+0C69", "U+0C6A", "U+0C6B", "U+0C6C", "U+0C6D", "U+0C6E", "U+0C6F">>,
       <<"U+0CE6", "U+0CE7", "U+0CE8", "U+0CE9", "U+0CEA", "U+0CEB", "U+0CEC", "U+0CED", "U+0CEE", "U+0CEF">>,
       <<"U+0D66", "U+0D67", "U+0D68", "U+0D69", "U+0D6A", "U+0D6B", "U+0D6C", "U+0D6D", "U+0D6E", "U+0D6F">>,
       <<"U+0DE6", "U+0DE7", "U+0DE8", "U+0DE9", "U+0DEA", "U+0DEB", "U+0DEC", "U+0DED", "U+0DEE", "U+0DEF">>,
       <<"U+0E50", "U+0E51", "U+0E52", "U+0E53", "U+0E54", "U+0E55", "U+0E56", "U+0E57", "U+0E58", "U+0E59">>,
       <<"U+0ED0", "U+0ED1", "U+0ED2", "U+0ED3", "U+0ED4", "U+0ED5", "U+0ED6", "U+0ED7", "U+0ED8", "U+0ED9">>,
       <<"U+0F20", "U+0F21", "U+0F22", "U+0F23", "U+0F24", "U+0F25", "U+0F26", "U+0F27", "U+0F28", "U+0F29">>,
       <<"U+1040", "U+1041", "U+1042", "U+1043", "U+1044", "U+1045", "U+1046", "U+1047", "U+1048", "U+1049">>,
       <<"U+1090", "U+1091", "U+1092", "U+1093", "U+1094", "U+1095", "U+1096", "U+1097", "U+1098", "U+1099">>,
       <<"U+17E0", "U+17E1", "U+17E2", "U+17E3", "U+17E4", "U+17E5", "U+17E6", "U+17E7", "U+17E8", "U+17E9">>,
       <<"U+1810", "U+1811", "U+1812", "U+1813", "U+1814", "U+1815", "U+1816", "U+1817", "U+1818", "U+1819">>,
       <<"U+1946", "U+1947", "U+1948", "U+1949", "U+194A", "U+194B", "U+194C", "U+194D", "U+194E", "U+194F">>,
       <<"U+19D0", "U+19D1", "U+19D2", "U+19D3", "U+19D4", "U+19D5", "U+19D6", "U+19D7", "U+19D8", "U+19D9">>,
       <<"U+1A80", "U+1A81", "U+1A82", "U+1A83", "U+1A84", "U+1A85", "U+1A86", "U+1A87", "U+1A88", "U+1A89">>,
       <<"U+1A90", "U+1A91", "U+1A92", "U+1A93", "U+1A94", "U+1A95", "U+1A96", "U+1A97", "U+1A98", "U+1A99">>,
       <<"U+1B50", "U+1B51", "U+1B52", "U+1B53", "U+1B54", "U+1B55", "U+1B56", "U+1B57", "U+1B58", "U+1B59">>,
       <<"U+1BB0", "U+1BB1", "U+1BB2", "U+1BB3", "U+1BB4", "U+1BB5", "U+1BB6", "U+1BB7", "U+1BB8", "U+1BB9">>,
       <<"U+1C40", "U+1C41", "U+1C42", "U+1C43", "U+1C44", "U+1C45", "U+1C46", "U+1C47", "U+1C48", "U+1C49">>,
       <<"U+1C50", "U+1C51", "U+1C52", "U+1C53", "U+1C54", "U+1C55", "U+1C56", "U+1C57", "U+1C58", "U+1C59">>,
       <<"U+A620", "U+A621", "U+A622", "U+A623", "U+A624", "U+A625", "U+A626", "U+A627", "U+A628", "U+A629">>,
       <<"U+A8D0", "U+A8D1", "U+A8D2", "U+A8D3", "U+A8D4", "U+A8D5", "U+A8D6", "U+A8D7", "U+A8D8", "U+A8D9">>,
       <<"U+A900", "U+A901", "U+A902", "U+A903", "U+A904", "U+A905", "U+A906", "U+A907", "U+A908", "U+A909">>,
       <<"U+A9D0", "U+A9D1", "U+A9D2", "U+A9D3", "U+A9D4", "U+A9D5", "U+A9D6", "U+A9D7", "U+A9D8", "U+A9D9">>,
       <<"U+A9F0", "U+A9F1", "U+A9F2", "U+A9F3", "U+A9F4", "U+A9F5", "U+A9F6", "U+A9F7", "U+A9F8", "U+A9F9">>,
       <<"U+AA50", "U+AA51", "U+AA52", "U+AA53", "U+AA54", "U+AA55", "U+AA56", "U+AA57", "U+AA58", "U+AA59">>,
       <<"U+ABF0", "U+ABF1", "U+ABF2", "U+ABF3", "U+ABF4", "U+ABF5", "U+ABF6", "U+ABF7", "U+ABF8", "U+ABF9">>,
       <<"U+FF10", "U+FF11", "U+FF12", "U+FF13", "U+FF14", "U+FF15", "U+FF16", "U+FF17", "U+FF18", "U+FF19">>,
       <<"U+104A0", "U+104A1", "U+104A2", "U+104A3", "U+104A4", "U+104A5", "U+104A6", "U+104A7", "U+104A8", "U+104A9">>,
       <<"U+10D30", "U+10D31", "U+10D32", "U+10D33", "U+10D34", "U+10D35", "U+10D36", "U+10D37", "U+10D38", "U+10D39">>,
       <<"U+11066", "U+11067", "U+11068", "U+11069", "U+1106A", "U+1106B", "U+1106C", "U+1106D", "U+1106E", "U+1106F">>,
       <<"U+110F0", "U+110F1", "U+110F2", "U+110F3", "U+110F4", "U+110F5", "U+110F6", "U+110F7", "U+110F8", "U+110F9">>,
       <<"U+11136", "U+11137", "U+11138", "U+11139", "U+1113A", "U+1113B", "U+1113C", "U+1113D", "U+1113E", "U+1113F">>,
       <<"U+111D0", "U+111D1", "U+111D2", "U+111D3", "U+111D4", "U+111D5", "U+111D6", "U+111D7", "U+111D8", "U+111D9">>,
       <<"U+112F0", "U+112F1", "U+112F2", "U+112F3", "U+112F4", "U+112F5", "U+112F6", "U+112F7", "U+112F8", "U+112F9">>,
       <<"U+11450", "U+11451", "U+11452", "U+11453", "U+11454", "U+11455", "U+11456", "U+11457", "U+11458", "U+11459">>,
       <<"U+114D0", "U+114D1", "U+114D2", "U+114D3", "U+114D4", "U+114D5", "U+114D6", "U+114D7", "U+114D8", "U+114D9">>,
       <<"U+11650", "U+11651", "U+11652", "U+11653", "U+11654", "U+11655", "U+11656", "U+11657", "U+11658", "U+11659">>,
       <<"U+116C0", "U+116C1", "U+116C2", "U+116C3", "U+116C4", "U+116C5", "U+116C6", "U+116C7", "U+116C8", "U+116C9">>,
       <<"U+11730", "U+11731", "U+11732", "U+11733", "U+11734", "U+11735", "U+11736", "U+11737", "U+11738", "U+11739">>,
       <<"U+118E0", "U+118E1", "U+118E2", "U+118E3", "U+118E4", "U+118E5", "U+118E6", "U+118E7", "U+118E8", "U+118E9">>,
       <<"U+11950", "U+11951", "U+11952", "U+11953", "U+11954", "U+11955", "U+11956", "U+11957", "U+11958", "U+11959">>,
       <<"U+11C50", "U+11C51", "U+11C52", "U+11C53", "U+11C54", "U+11C55", "U+11C56", "U+11C57", "U+11C58", "U+11C59">>,
       <<"U+11D50", "U+11D51", "U+11D52", "U+11D53", "U+11D54", "U+11D55", "U+11D56", "U+11D57", "U+11D58", "U+11D59">>,
       <<"U+11DA0", "U+11DA1", "U+11DA2", "U+11DA3", "U+11DA4", "U+11DA5", "U+11DA6", "U+11DA7", "U+11DA8", "U+11DA9">>,
       <<"U+16A60", "U+16A61", "U+16A62", "U+16A63", "U+16A64", "U+16A65", "U+16A66", "U+16A67", "U+16A68", "U+16A69">>,
       <<"U+16AC0", "U+16AC1", "U+16AC2", "U+16AC3", "U+16AC4", "U+16AC5", "U+16AC6", "U+16AC7", "U+16AC8", "U+16AC9">>,
       <<"U+16B50", "U+16B51", "U+16B52", "U+16B53", "U+16B54", "U+16B55", "U+16B56", "U+16B57", "U+16B58", "U+16B59">>,
       <<"U+1D7CE", "U+1D7CF", "U+1D7D0", "U+1D7D1", "U+1D7D2", "U+1D7D3", "U+1D7D4", "U+1D7D5", "U+1D7D6", "U+1D7D7">>,
       <<"U+1D7D8", "U+1D7D9", "U+1D7DA", "U+1D7DB", "U+1D7DC", "U+1D7DD", "U+1D7DE", "U+1D7DF", "U+1D7E0", "U+1D7E1">>,
       <<"U+1D7E2", "U+1D7E3", "U+1D7E4", "U+1D7E5", "U+1D7E6", "U+1D7E7", "U+1D7E8", "U+1D7E9", "U+1D7EA", "U+1D7EB">>,
       <<"U+1D7EC", "U+1D7ED", "U+1D7EE", "U+1D7EF", "U+1D7F0", "U+1D7F1", "U+1D7F2", "U+1D7F3", "U+1D7F4", "U+1D7F5">>,
       <<"U+1D7F6", "U+1D7F7", "U+1D7F8", "U+1D7F9", "U+1D7FA", "U+1D7FB", "U+1D7FC", "U+1D7FD", "U+1D7FE", "U+1D7FF">>,
       <<"U+1E140", "U+1E141", "U+1E142", "U+1E143", "U+1E144", "U+1E145", "U+1E146", "U+1E147", "U+1E148", "U+1E149">>,
       <<"U+1E2F0", "U+1E2F1", "U+1E2F2", "U+1E2F3", "U+1E2F4", "U+1E2F5", "U+1E2F6", "U+1E2F7", "U+1E2F8", "U+1E2F9">>,
       <<"U+1E950", "U+1E951", "U+1E952", "U+1E953", "U+1E954", "U+1E955", "U+1E956", "U+1E957", "U+1E958", "U+1E959">>,
       <<"U+1FBF0", "U+1FBF1", "U+1FBF2", "U+1FBF3", "U+1FBF4", "U+1FBF5", "U+1FBF6", "U+1FBF7", "U+1FBF8", "U+1FBF9">>
    >>

\* The characters \d matches in a str pattern: every decimal digit.
Digits ==
    {"0", "1", "2", "3", "4", "5", "6", "7", "8", "9"}
        \cup {UnicodeDecimalDigits[b][k] : b \in DOMAIN UnicodeDecimalDigits, k \in 1..10}

\* The value int() gives a decimal digit.
DigitVal(c) ==
    CASE c = "0" -> 0 [] c = "1" -> 1 [] c = "2" -> 2 [] c = "3" -> 3
      [] c = "4" -> 4 [] c = "5" -> 5 [] c = "6" -> 6 [] c = "7" -> 7
      [] c = "8" -> 8 [] c = "9" -> 9
      [] OTHER -> CHOOSE v \in 0..9 :
                      \E b \in DOMAIN UnicodeDecimalDigits :
                          UnicodeDecimalDigits[b][v + 1] = c

\* The characters str.strip() removes: those str.isspace() holds for.
Whitespace ==
    {"\t", "\n", "", "\f", "\r", "", "", "", "", " ", "", " ",
     "U+1680", "U+2000", "U+2001", "U+2002", "U+2003", "U+2004", "U+2005",
     "U+2006", "U+2007", "U+2008", "U+2009", "U+200A", "U+2028", "U+2029",
     "U+202F", "U+205F", "U+3000"}

\* int(s) for a string of decimal digits: the value of the digits from the
\* first that is not a zero.
IntOf(s) ==
    LET RECURSIVE value(_)
        value(d) ==
            IF d = <<>> THEN 0
            ELSE 10 * value(SubSeq(d, 1, Len(d) - 1)) + DigitVal(d[Len(d)])
        significant == {k \in 1..Len(s) : DigitVal(s[k]) # 0}
    IN  IF significant = {} THEN 0
        ELSE value(SubSeq(s, CHOOSE k \in significant :
                                 \A l \in significant : k <= l,
                          Len(s)))

\* str.strip(): drop leading and trailing whitespace.
RECURSIVE Strip(_)
Strip(s) ==
    IF s = <<>> THEN s
    ELSE IF s[1] \in Whitespace THEN Strip(Tail(s))
    ELSE IF s[Len(s)] \in Whitespace THEN Strip(SubSeq(s, 1, Len(s) - 1))
    ELSE s

\* ---------------------------------------------------------- reply parser
\* MessagingService.process_reply: re.findall with the bracket pattern
\*     \[(\d+)\](.*?)(?=\[\d+\]|\Z)
\* and, when that yields no match, the numbered-list pattern
\*     (\d+)\.(.*?)(?=\d+\.|\Z)
\* both with re.DOTALL. Positions are 1-based here; Len(body) + 1 is \Z.

\* The first position >= i that holds no digit (the end of the \d+ run at i).
DigitRunEnd(body, i) ==
    LET stops == {e \in i..Len(body) : body[e] \notin Digits}
    IN  IF stops = {} THEN Max(i, Len(body) + 1)
        ELSE CHOOSE e \in stops : \A l \in stops : e <= l

\* Whether \[\d+\] matches at position i.
BracketMarkerAt(body, i) ==
    /\ i <= Len(body)
    /\ body[i] = "["
    /\ LET e == DigitRunEnd(body, i + 1)
       IN  e > i + 1 /\ e <= Len(body) /\ body[e] = "]"

\* Whether \d+\. matches at position i.
DotMarkerAt(body, i) ==
    /\ i <= Len(body)
    /\ body[i] \in Digits
    /\ LET e == DigitRunEnd(body, i)
       IN  e <= Len(body) /\ body[e] = "."

MarkerAt(kind, body, i) ==
    IF kind = "bracket" THEN BracketMarkerAt(body, i) ELSE DotMarkerAt(body, i)

\* The first position >= i where the marker matches, or Len(body) + 1.
RECURSIVE NextMarker(_, _, _)
NextMarker(kind, body, i) ==
    IF i > Len(body) THEN Len(body) + 1
    ELSE IF MarkerAt(kind, body, i) THEN i
    ELSE NextMarker(kind, body, i + 1)

\* For a marker matching at i: the positions of its digits and of the first
\* character after the marker.
MarkerDigits(kind, body, i) ==
    IF kind = "bracket"
    THEN SubSeq(body, i + 1, DigitRunEnd(body, i + 1) - 1)
    ELSE SubSeq(body, i, DigitRunEnd(body, i) - 1)

MarkerEnd(kind, body, i) ==
    IF kind = "bracket" THEN DigitRunEnd(body, i + 1) + 1
    ELSE DigitRunEnd(body, i) + 1

\* re.findall(pattern, body, re.DOTALL) scanning from position i: the list of
\* (digits, text) groups of the non-overlapping matches, left to right. The
\* lazy group (.*?) ends at the first position where the lookahead holds.
RECURSIVE FindAll(_, _, _)
FindAll(kind, body, i) ==
    LET m == NextMarker(kind, body, i)
    IN  IF m > Len(body) THEN <<>>
        ELSE LET from == MarkerEnd(kind, body, m)
                 to == NextMarker(kind, body, from)
             IN  <<[idx_str |-> MarkerDigits(kind, body, m),
                    translation |-> SubSeq(body, from, to - 1)]>>
                 \o FindAll(kind, body, to)

\* A Python dict as the list of its (key, value) items in insertion order.
DictKeys(d) == {d[k].key : k \in 1..Len(d)}

DictGet(d, key) == (CHOOSE k \in 1..Len(d) : d[k].key = key)

\* A store that keeps the value a key already has.
DictPut_first(d, key, value) ==
    IF \E k \in 1..Len(d) : d[k].key = key THEN d
    ELSE Append(d, [key |-> key, value |-> value])

\* d[key] = value: a new key is appended, an existing key keeps its place.
DictPut(d, key, value) ==
    IF key \in DictKeys(d)
    THEN [d EXCEPT ![DictGet(d, key)] = [key |-> key, value |-> value]]
    ELSE Append(d, [key |-> key, value |-> value])

\* The loop over the matches: idx = int(idx_str) - 1, stripped text. int()
\* raises ValueError for more than 4300 digits, and the match is skipped.
RECURSIVE MatchesToDict(_, _)
MatchesToDict(matches, d) ==
    IF matches = <<>> THEN d
    ELSE IF Len(matches[1].idx_str) > 4300 THEN MatchesToDict(Tail(matches), d)
    ELSE MatchesToDict(Tail(matches),
                       DictPut(d, IntOf(matches[1].idx_str) - 1,
                               Strip(matches[1].translation)))

\* A choice of pattern that prefers the numbered-list pattern.
Matches_dot_first(body) ==
    LET alternative == FindAll("dot", body, 1)
    IN  IF alternative = <<>> THEN FindAll("bracket", body, 1) ELSE alternative

\* The pattern whose matches are used: the alternative only when the primary
\* pattern yields no match.
Matches(body) ==
    LET primary == FindAll("bracket", body, 1)
    IN  IF primary = <<>> THEN FindAll("dot", body, 1) ELSE primary

process_reply(body) == MatchesToDict(Matches(body), <<>>)

\* ------------------------------------------------------------------ state

VARIABLES
    texts,      \* TextManager.texts: the TextSource records, in insertion order
    users,      \* UserManager.users: the User records, in insertion order
    progress,   \* UserManager.progress: user id -> list of TranslationProgress
    clock,      \* the reading of datetime.now() at the latest daily cycle
    cycle_log,  \* the report of the latest operation when it is a daily cycle:
                \* one entry per progress record visited (else empty)
    delivered,  \* per (user id, text id): the index batches delivered so far
    reply_count,\* the replies routed so far
    last_op     \* the latest operation: its name, outcome and resolved locals

vars == <<texts, users, progress, clock, cycle_log, delivered, reply_count, last_op>>

\* DeliveryMethod
EMAIL == "email"

SMS == "sms"

\* ------------------------------------------------------------ input sets

UserIds == {"u1", "u2"}

\* A user id no registration uses.
GhostUser == "u9"

TextIds == {"t1", "t2"}

\* Sentences as the tokenizer returns them (lists of characters).
S_a == <<"a", ".">>

S_b == <<" ", "b">>

S_c == <<"c", "!", " ">>

S_blank == <<" ">>

\* The text files under the data directory: file name -> the sentence list
\* nltk.sent_tokenize returns for the whitespace-normalised content. A name
\* outside this domain is a file that does not exist.
Files == [f \in {"three.txt", "one.txt", "empty.txt", "five.txt"} |->
            CASE f = "three.txt" -> <<S_a, S_blank, S_b, S_c>>
              [] f = "one.txt" -> <<S_b>>
              [] f = "empty.txt" -> <<S_blank>>
              [] f = "five.txt" -> <<S_a, S_b, S_c, S_a, S_b>>]

\* The register_text calls the model makes.
TextInputs ==
    { [id |-> "t1", title |-> <<"A">>, file_path |-> "three.txt", sentences_per_day |-> 2],
      [id |-> "t2", title |-> <<"B">>, file_path |-> "one.txt", sentences_per_day |-> 1],
      [id |-> "t2", title |-> <<"B">>, file_path |-> "missing.txt", sentences_per_day |-> 2] }

\* The register_user calls the model makes (the last without a method).
UserInputs ==
    { [id |-> "u1", email |-> "e1", phone |-> None, preferred_method |-> EMAIL],
      [id |-> "u2", email |-> "e1", phone |-> "p2", preferred_method |-> SMS],
      [id |-> "u2", email |-> None, phone |-> None] }

\* ------------------------------------------------------------ list helpers

\* The position of the first element of seq satisfying id = x, or 0.
RECURSIVE FirstWith(_, _, _)
FirstWith(seq, field, x) ==
    IF seq = <<>> THEN 0
    ELSE IF seq[1][field] = x THEN 1
    ELSE LET r == FirstWith(Tail(seq), field, x)
         IN  IF r = 0 THEN 0 ELSE r + 1

Ids(seq) == {seq[k].id : k \in 1..Len(seq)}

\* ------------------------------------------------------------ TextManager

\* TextManager._parse_text after tokenisation:
\* [s.strip() for s in sentences if s.strip()]
RECURSIVE StripNonBlank(_)
StripNonBlank(sentences) ==
    IF sentences = <<>> THEN <<>>
    ELSE (IF Strip(sentences[1]) # <<>> THEN <<Strip(sentences[1])>> ELSE <<>>)
         \o StripNonBlank(Tail(sentences))

parse_text(file_path) == StripNonBlank(Files[file_path])

\* TextManager.get_text: the TextSource, or KeyError.
HasText(ts, text_id) == text_id \in Ids(ts)

get_text(ts, text_id) == ts[FirstWith(ts, "id", text_id)]

\* A registration that replaces the text registered under the same id.
register_text_overwrite(ts, in) ==
    IF in.file_path \notin DOMAIN Files
    THEN [status |-> "FileNotFoundError", texts |-> ts]
    ELSE LET text == [id |-> in.id, title |-> in.title,
                      sentences_per_day |-> in.sentences_per_day,
                      sentences |-> parse_text(in.file_path)]
         IN  [status |-> "ok",
              texts |-> IF in.id \in Ids(ts)
                        THEN [ts EXCEPT ![FirstWith(ts, "id", in.id)] = text]
                        ELSE Append(ts, text)]

\* TextManager.register_text
register_text(ts, in) ==
    IF in.id \in Ids(ts) THEN [status |-> "ValueError: already exists", texts |-> ts]
    ELSE IF in.file_path \notin DOMAIN Files
    THEN [status |-> "FileNotFoundError", texts |-> ts]
    ELSE [status |-> "ok",
          texts |-> Append(ts, [id |-> in.id, title |-> in.title,
                                sentences_per_day |-> in.sentences_per_day,
                                sentences |-> parse_text(in.file_path)])]

\* A portion that is cut from the start of the text whatever the position.
get_daily_portion_from_start(text_source, position) ==
    PySlice(text_source.sentences, 0,
            Min(position + text_source.sentences_per_day,
                Len(text_source.sentences)))

\* TextManager.get_daily_portion
get_daily_portion(text_source, position) ==
    LET start_idx == position
        end_idx == Min(start_idx + text_source.sentences_per_day,
                       Len(text_source.sentences))
    IN  PySlice(text_source.sentences, start_idx, end_idx)

\* TextSource.total_days (// is floor division)
FloorDiv(a, b) == IF b > 0 THEN a \div b ELSE (0 - a) \div (0 - b)

total_days(text_source) ==
    FloorDiv(Len(text_source.sentences) + text_source.sentences_per_day - 1,
             text_source.sentences_per_day)

\* TextManager.save_translated_sentence: reads text.sentences[sentence_index]
\* to print it; nothing is stored.
save_translated_sentence(ts, text_id, sentence_index) ==
    IF ~HasText(ts, text_id) THEN "KeyError: text"
    ELSE IF IndexErrorAt(get_text(ts, text_id).sentences, sentence_index)
    THEN "IndexError"
    ELSE "ok"

\* ------------------------------------------------------------ UserManager

\* A validation that tests the email method only.
UserInvalid_email_only(user) ==
    user.preferred_method = EMAIL /\ ~Truthy(user.email)

\* User.__post_init__: the contact field the preferred method needs.
UserInvalid(user) ==
    \/ user.preferred_method = EMAIL /\ ~Truthy(user.email)
    \/ user.preferred_method = SMS /\ ~Truthy(user.phone)

HasUser(us, user_id) == user_id \in Ids(us)

\* UserManager.get_user: the User, or KeyError.
get_user(us, user_id) == us[FirstWith(us, "id", user_id)]

\* A registration that takes an id already in the directory and starts the
\* user's progress list afresh.
UserManager_register_user_again(us, pr, user) ==
    IF UserInvalid(user)
    THEN [status |-> "ValueError: contact required", users |-> us, progress |-> pr]
    ELSE [status |-> "ok",
          users |-> IF user.id \in Ids(us) THEN us ELSE Append(us, user),
          progress |-> [u \in DOMAIN pr \cup {user.id} |->
                          IF u = user.id THEN <<>> ELSE pr[u]]]

\* UserManager.register_user
UserManager_register_user(us, pr, user) ==
    IF user.id \in Ids(us)
    THEN [status |-> "ValueError: already exists", users |-> us, progress |-> pr]
    ELSE IF UserInvalid(user)
    THEN [status |-> "ValueError: contact required", users |-> us, progress |-> pr]
    ELSE [status |-> "ok",
          users |-> Append(us, user),
          progress |-> [u \in DOMAIN pr \cup {user.id} |->
                          IF u = user.id THEN <<>> ELSE pr[u]]]

\* An Optional[datetime] field: None, or the time it holds. The empty set
\* stands for None and {t} for the time t.
Never == {}

At(t) == {t}

\* A record whose cursor counts sentences from one.
NewProgress_from_one(user_id, text_id, total_sentences) ==
    [user_id |-> user_id, text_id |-> text_id, current_position |-> 1,
     last_sent_date |-> Never, translations |-> <<>>,
     total_sentences |-> total_sentences]

\* TranslationProgress(user_id, text_id) followed by set_total_sentences.
NewProgress(user_id, text_id, total_sentences) ==
    [user_id |-> user_id, text_id |-> text_id, current_position |-> 0,
     last_sent_date |-> Never, translations |-> <<>>,
     total_sentences |-> total_sentences]

\* assign_text without the "already translating" check.
assign_text_unchecked(us, pr, user_id, text_id, total_sentences) ==
    IF ~HasUser(us, user_id) THEN [status |-> "KeyError: user", progress |-> pr]
    ELSE [status |-> "ok",
          progress |-> [pr EXCEPT ![user_id] =
                          Append(@, [user_id |-> user_id, text_id |-> text_id,
                                     current_position |-> 0,
                                     last_sent_date |-> Never, translations |-> <<>>,
                                     total_sentences |-> total_sentences])]]

\* UserManager.assign_text
assign_text(us, pr, user_id, text_id, total_sentences) ==
    IF ~HasUser(us, user_id) THEN [status |-> "KeyError: user", progress |-> pr]
    ELSE IF FirstWith(pr[user_id], "text_id", text_id) # 0
    THEN [status |-> "ValueError: already translating", progress |-> pr]
    ELSE [status |-> "ok",
          progress |-> [pr EXCEPT ![user_id] =
                          Append(@, NewProgress(user_id, text_id, total_sentences))]]

\* UserManager.get_progress: "ok" when it returns a record, else the error.
get_progress_status(us, pr, user_id, text_id) ==
    IF ~HasUser(us, user_id) THEN "KeyError: user"
    ELSE IF FirstWith(pr[user_id], "text_id", text_id) = 0
    THEN "ValueError: not translating"
    ELSE "ok"

\* The place in the user's list of the record get_progress returns.
get_progress(pr, user_id, text_id) == FirstWith(pr[user_id], "text_id", text_id)

\* update_progress that moves the cursor and keeps the old date.
update_progress_keeps_date(pr, user_id, text_id, position, sent_date) ==
    [pr EXCEPT ![user_id][get_progress(pr, user_id, text_id)] =
        [@ EXCEPT !.current_position = position]]

\* UserManager.update_progress (the record exists)
update_progress(pr, user_id, text_id, position, sent_date) ==
    [pr EXCEPT ![user_id][get_progress(pr, user_id, text_id)] =
        [@ EXCEPT !.current_position = position, !.last_sent_date = At(sent_date)]]

\* progress.translations[sentence_index] = translation
SetItem(translations, sentence_index, translation) ==
    [k \in DOMAIN translations \cup {sentence_index} |->
        IF k = sentence_index THEN translation ELSE translations[k]]

\* save_translation that also moves the cursor to the sentence it stored.
save_translation_moves_cursor(pr, user_id, text_id, sentence_index, translation) ==
    [pr EXCEPT ![user_id][get_progress(pr, user_id, text_id)] =
        [@ EXCEPT !.translations = SetItem(@, sentence_index, translation),
                  !.current_position = sentence_index]]

\* UserManager.save_translation (the record exists)
save_translation(pr, user_id, text_id, sentence_index, translation) ==
    [pr EXCEPT ![user_id][get_progress(pr, user_id, text_id)].translations =
        SetItem(@, sentence_index, translation)]

\* A merge in which a key that is already there keeps its value.
DictUpdate_keep(all_translations, translations) ==
    [k \in DOMAIN all_translations \cup DOMAIN translations |->
        IF k \in DOMAIN all_translations THEN all_translations[k]
        ELSE translations[k]]

\* all_translations.update(progress.translations)
DictUpdate(all_translations, translations) ==
    [k \in DOMAIN all_translations \cup DOMAIN translations |->
        IF k \in DOMAIN translations THEN translations[k]
        ELSE all_translations[k]]

\* for progress in progress_list, from the k-th record
RECURSIVE merge_progress_list(_, _, _, _)
merge_progress_list(all_translations, progress_list, k, text_id) ==
    IF k > Len(progress_list) THEN all_translations
    ELSE merge_progress_list(
             IF progress_list[k].text_id = text_id
             THEN DictUpdate(all_translations, progress_list[k].translations)
             ELSE all_translations,
             progress_list, k + 1, text_id)

\* for user_id, progress_list in self.progress.items(), from the i-th user:
\* the dict holds the users in the order they were registered.
RECURSIVE merge_users(_, _, _, _, _)
merge_users(all_translations, us, pr, i, text_id) ==
    IF i > Len(us) THEN all_translations
    ELSE merge_users(merge_progress_list(all_translations, pr[us[i].id], 1, text_id),
                     us, pr, i + 1, text_id)

\* UserManager.get_all_translations
get_all_translations(us, pr, text_id) == merge_users(<<>>, us, pr, 1, text_id)

\* ------------------------------------------------------- Python floats
\* A Python float (IEEE 754 binary64) that is positive: bits is its 53-bit
\* significand, most significant bit first, and the value is the integer
\* bits spell times 2^exp. Zero has no bits. Only the operations of
\* get_translation_status are modelled: the division of two small positive
\* integers and the product with a small positive integer, both rounded to
\* nearest, ties to even.

\* The significand length of a binary64 float.
FloatBits == 53

FloatZero == [bits |-> <<>>, exp |-> 0]

RECURSIVE Pow2(_)
Pow2(n) == IF n = 0 THEN 1 ELSE 2 * Pow2(n - 1)

\* The binary digits of a non-negative integer, most significant first (no
\* digit for 0).
RECURSIVE BitsOf(_)
BitsOf(n) == IF n = 0 THEN <<>> ELSE Append(BitsOf(n \div 2), n % 2)

\* A bit string without its leading zeros.
RECURSIVE Significant(_)
Significant(bits) ==
    IF bits # <<>> /\ bits[1] = 0 THEN Significant(Tail(bits)) ELSE bits

\* bits + 1 on a bit string; an all-ones string grows by one digit.
RECURSIVE Increment(_)
Increment(bits) ==
    IF bits = <<>> THEN <<1>>
    ELSE IF bits[Len(bits)] = 0 THEN [bits EXCEPT ![Len(bits)] = 1]
    ELSE Append(Increment(SubSeq(bits, 1, Len(bits) - 1)), 0)

\* Round a bit string worth (bits) * 2^exp, with a flag telling whether
\* non-zero digits were already dropped below it, to FloatBits digits.
RoundBits(bits, exp, dropped) ==
    IF Len(bits) <= FloatBits THEN [bits |-> bits, exp |-> exp]
    ELSE LET kept == SubSeq(bits, 1, FloatBits)
             rest == SubSeq(bits, FloatBits + 1, Len(bits))
             half == rest[1] = 1
             more == dropped \/ \E k \in 2..Len(rest) : rest[k] = 1
             round_up == half /\ (more \/ kept[FloatBits] = 1)
             rounded == IF round_up THEN Increment(kept) ELSE kept
             e == exp + Len(rest)
         IN  IF Len(rounded) > FloatBits
             THEN [bits |-> SubSeq(rounded, 1, FloatBits), exp |-> e + 1]
             ELSE [bits |-> rounded, exp |-> e]

\* The next n binary digits of r / d after the point (r < d), appended to
\* bits, and what is left of r.
RECURSIVE DivBits(_, _, _, _)
DivBits(r, d, n, bits) ==
    IF n = 0 THEN [bits |-> bits, rem |-> r]
    ELSE IF 2 * r >= d THEN DivBits(2 * r - d, d, n - 1, Append(bits, 1))
    ELSE DivBits(2 * r, d, n - 1, Append(bits, 0))

\* The number of times d must be doubled to exceed n, less one: the e with
\* d * 2^e <= n < d * 2^(e + 1), for n >= d.
RECURSIVE Log2Ratio(_, _)
Log2Ratio(n, d) == IF n < 2 * d THEN 0 ELSE 1 + Log2Ratio(n, 2 * d)

\* k / t for integers k >= 0 and t > 0: true division.
FloatDiv(k, t) ==
    IF k = 0 THEN FloatZero
    ELSE LET shift_up == IF k >= t THEN Log2Ratio(k, t) ELSE 0
             shift_down == IF k >= t THEN 0 ELSE Log2Ratio(2 * t - 1, k)
             quotient == DivBits(k * Pow2(shift_down) - t * Pow2(shift_up),
                                 t * Pow2(shift_up), FloatBits, <<1>>)
         IN  RoundBits(quotient.bits, (shift_up - shift_down) - FloatBits,
                       quotient.rem # 0)

\* bits * c + carry on a bit string, for a small positive integer c: the
\* digits are taken from the last one, the product's digits are put before
\* low.
RECURSIVE MulBits(_, _, _, _)
MulBits(bits, c, carry, low) ==
    IF bits = <<>> THEN BitsOf(carry) \o low
    ELSE IF (bits[Len(bits)] * c + carry) % 2 = 1
    THEN MulBits(SubSeq(bits, 1, Len(bits) - 1), c,
                 (bits[Len(bits)] * c + carry) \div 2, <<1>> \o low)
    ELSE MulBits(SubSeq(bits, 1, Len(bits) - 1), c,
                 (bits[Len(bits)] * c + carry) \div 2, <<0>> \o low)

\* f * c for a float f and a small positive integer c.
FloatMul(f, c) ==
    IF f.bits = <<>> THEN FloatZero
    ELSE RoundBits(MulBits(f.bits, c, 0, <<>>), f.exp, FALSE)

\* -------------------------------------------------- TranslationAssembler
\* The plain file is modelled as the list of what _assemble_txt writes per
\* sentence: the text written for the sentence and what is written after it.
\* The file's content is the concatenation, and the file's path is left out.
\* The translations argument is a dict as the progress store keeps it: a
\* function from its keys to their values.

\* A placeholder without the original sentence.
Placeholder_bare(sentence) == <<"[UNTRANSLATED]">>

\* f"[UNTRANSLATED: {sentence}]"
Placeholder(sentence) == <<"[UNTRANSLATED: ">> \o sentence \o <<"]">>

\* sentence.endswith('.') or sentence.endswith('!') or sentence.endswith('?')
EndsSentence(sentence) ==
    sentence # <<>> /\ sentence[Len(sentence)] \in {".", "!", "?"}

\* TranslationAssembler._assemble_txt: the writes, sentence by sentence.
assemble_txt(text_source, translations) ==
    [k \in 1..Len(text_source.sentences) |->
        IF k - 1 \in DOMAIN translations
        THEN [index |-> k - 1,
              text |-> translations[k - 1],
              after |-> IF EndsSentence(text_source.sentences[k])
                        THEN <<"\n">> ELSE <<" ">>]
        ELSE [index |-> k - 1,
              text |-> Placeholder(text_source.sentences[k]),
              after |-> <<>>]]

\* TranslationAssembler._assemble_json: the "sentences" list of the document.
assemble_json(text_source, translations) ==
    [k \in 1..Len(text_source.sentences) |->
        [index |-> k - 1,
         original |-> text_source.sentences[k],
         translation |-> IF k - 1 \in DOMAIN translations
                         THEN translations[k - 1]
                         ELSE <<"[UNTRANSLATED]">>]]

\* TranslationAssembler.assemble_translation
assemble_translation(text_source, translations, output_format) ==
    IF output_format = "txt"
    THEN [status |-> "ok", output |-> assemble_txt(text_source, translations)]
    ELSE IF output_format = "json"
    THEN [status |-> "ok", output |-> assemble_json(text_source, translations)]
    ELSE [status |-> "ValueError: format", output |-> <<>>]

\* The content of the plain file: the writes in order.
RECURSIVE FileContent(_)
FileContent(output) ==
    IF output = <<>> THEN <<>>
    ELSE output[1].text \o output[1].after \o FileContent(Tail(output))

\* A percentage that is left as the fraction translated / total.
completion_percentage_fraction(translated_sentences, total_sentences) ==
    IF total_sentences > 0
    THEN FloatDiv(translated_sentences, total_sentences)
    ELSE FloatZero

\* (translated_sentences / total_sentences) * 100 if total_sentences > 0
\* else 0; the integer 0 of the else branch is the float zero here.
completion_percentage(translated_sentences, total_sentences) ==
    IF total_sentences > 0
    THEN FloatMul(FloatDiv(translated_sentences, total_sentences), 100)
    ELSE FloatZero

\* TranslationAssembler.get_translation_status
get_translation_status(text_source, translations) ==
    [title |-> text_source.title,
     total_sentences |-> Len(text_source.sentences),
     translated_sentences |-> Cardinality(DOMAIN translations),
     completion_percentage |->
         completion_percentage(Cardinality(DOMAIN translations),
                               Len(text_source.sentences)),
     remaining_sentences |->
         Len(text_source.sentences) - Cardinality(DOMAIN translations)]

\* ------------------------------------------------------ MessagingService

\* What one transport call does: it returns True ("sent"), returns False
\* ("failed") or raises ("error").
Results == {"sent", "failed", "error"}

\* MessagingService.send_daily_portion: dispatch on the preferred method and
\* the contact check of _send_email and _send_sms; `delivery` is what the
\* transport does with a message it accepts.
send_daily_portion(user, delivery) ==
    IF user.preferred_method = EMAIL
    THEN (IF ~Truthy(user.email) THEN "error" ELSE delivery)
    ELSE IF user.preferred_method = SMS
    THEN (IF ~Truthy(user.phone) THEN "error" ELSE delivery)
    ELSE "error"

\* MessagingService._format_message_body: the numbered lines of the body,
\* f"[{idx+1}] {sentence}\n\n" for each sentence and its index (zip stops at
\* the shorter list; numbers below 100). The heading and the closing
\* instructions are the same in every message and are left out.
format_message_body(sentences, sentence_indices) ==
    LET digit(d) == <<"0", "1", "2", "3", "4", "5", "6", "7", "8", "9">>[d + 1]
        str(n) == IF n < 10 THEN <<digit(n)>> ELSE <<digit(n \div 10), digit(n % 10)>>
    IN  [i \in 1..Min(Len(sentences), Len(sentence_indices)) |->
            <<"[">> \o str(sentence_indices[i] + 1) \o <<"]", " ">>
                \o sentences[i] \o <<"\n", "\n">>]

\* -------------------------------------------- TranslationServiceApp: cycle

Pairs == UserIds \X TextIds

\* One report line of send_daily_portions, with the arguments of the
\* transport call when one was made.
LogEntry(user_id, text_id, event, invoked, start_position, sentences) ==
    [user_id |-> user_id, text_id |-> text_id, event |-> event,
     invoked |-> invoked, start_position |-> start_position,
     sentences |-> sentences,
     sentence_indices |-> Range(start_position, start_position + Len(sentences))]

\* A test of the transport's outcome that takes every return for a success.
delivery_returned(result) == result # "error"

\* if result: the transport's return value is truthy
delivery_succeeded(result) == result = "sent"

\* A skip test that lets a record standing exactly at the end through.
has_completed_past(rec, text) == rec.current_position > Len(text.sentences)

\* if progress.current_position >= len(text.sentences): all sentences sent
has_completed(rec, text) == rec.current_position >= Len(text.sentences)

\* The body of the loop over a user's progress records, for the k-th record:
\* the try block and its except clause. st holds the progress store, the
\* report and the delivery history.
send_to_record(ts, us, st, user_id, k, now, delivery) ==
    LET rec == st.progress[user_id][k]
        text_id == rec.text_id
        user == get_user(us, user_id)
    IN  IF ~HasText(ts, text_id)
        THEN [st EXCEPT !.cycle_log =
                 Append(@, LogEntry(user_id, text_id, "error", FALSE, 0, <<>>))]
        ELSE
        LET text == get_text(ts, text_id)
            start_position == rec.current_position
            sentences == get_daily_portion(text, start_position)
            result == send_daily_portion(user, delivery[<<user_id, text_id>>])
        IN  IF has_completed(rec, text)
            THEN [st EXCEPT !.cycle_log =
                     Append(@, LogEntry(user_id, text_id, "completed", FALSE,
                                        start_position, <<>>))]
            ELSE IF delivery_succeeded(result)
            THEN [progress |-> update_progress(st.progress, user_id, text_id,
                                               start_position + Len(sentences), now),
                  cycle_log |-> Append(st.cycle_log,
                                       LogEntry(user_id, text_id, result, TRUE,
                                                start_position, sentences)),
                  delivered |-> [st.delivered EXCEPT ![<<user_id, text_id>>] =
                                   Append(@, Range(start_position,
                                                   start_position + Len(sentences)))]]
            ELSE [st EXCEPT !.cycle_log =
                     Append(@, LogEntry(user_id, text_id, result, TRUE,
                                        start_position, sentences))]

\* for progress in self.user_manager.progress[user_id], from the k-th record
RECURSIVE send_to_user(_, _, _, _, _, _, _)
send_to_user(ts, us, st, user_id, k, now, delivery) ==
    IF k > Len(st.progress[user_id]) THEN st
    ELSE send_to_user(ts, us, send_to_record(ts, us, st, user_id, k, now, delivery),
                      user_id, k + 1, now, delivery)

\* for user_id in users_to_process, from the i-th id: get_user raises KeyError
\* for an id that is not registered, outside the try block.
RECURSIVE send_to_users(_, _, _, _, _, _, _)
send_to_users(ts, us, st, users_to_process, i, now, delivery) ==
    IF i > Len(users_to_process) THEN [status |-> "ok", st |-> st]
    ELSE IF ~HasUser(us, users_to_process[i])
    THEN [status |-> "KeyError: user", st |-> st]
    ELSE send_to_users(ts, us,
                       send_to_user(ts, us, st, users_to_process[i], 1, now, delivery),
                       users_to_process, i + 1, now, delivery)

\* user_ids or list(self.user_manager.users.keys())
users_to_process(us, user_ids) ==
    IF user_ids = None \/ user_ids = <<>>
    THEN [k \in 1..Len(us) |-> us[k].id]
    ELSE user_ids

\* TranslationServiceApp.send_daily_portions
send_daily_portions(ts, us, pr, dl, user_ids, now, delivery) ==
    send_to_users(ts, us, [progress |-> pr, cycle_log |-> <<>>, delivered |-> dl],
                  users_to_process(us, user_ids), 1, now, delivery)

\* -------------------------------------------- TranslationServiceApp: reply

\* A sender lookup that takes the first user of the directory for any sender.
find_sender_first(us, sender) == IF us = <<>> THEN None ELSE us[1].id

\* The first user, in directory order, whose email or phone equals sender.
RECURSIVE find_sender(_, _)
find_sender(us, sender) ==
    IF us = <<>> THEN None
    ELSE IF us[1].email = sender \/ us[1].phone = sender THEN us[1].id
    ELSE find_sender(Tail(us), sender)

\* A subject line and a title are lists of tokens: the template's prefix is
\* one token, a blank is one token, and a word is one token.
SubjectPrefix == "Daily Translation:"

\* The text named by the subject: the first text, in catalog order, whose
\* title equals the stripped remainder of a subject that starts with the
\* prefix; None when there is none.
text_from_subject(ts, subject) ==
    IF subject # <<>> /\ subject[1] = SubjectPrefix
    THEN LET text_title == Strip(Tail(subject))
             k == FirstWith(ts, "title", text_title)
         IN  IF k = 0 THEN None ELSE ts[k].id
    ELSE None

\* The base offset without its floor at zero.
reply_start_position_unfloored(current_position, sentences_per_day) ==
    current_position - sentences_per_day

\* Assuming the user is replying to the most recent sentences
reply_start_position(current_position, sentences_per_day) ==
    Max(0, current_position - sentences_per_day)

\* for rel_idx, translation in translations.items(), from the k-th item:
\* save_translation, then save_translated_sentence, which raises IndexError
\* for an index outside the text.
RECURSIVE save_each(_, _, _, _, _, _, _)
save_each(ts, pr, user_id, text_id, translations, k, start_position) ==
    IF k > Len(translations) THEN [status |-> "ok", progress |-> pr]
    ELSE LET abs_idx == start_position + translations[k].key
             saved == save_translation(pr, user_id, text_id, abs_idx,
                                       translations[k].value)
             shown == save_translated_sentence(ts, text_id, abs_idx)
         IN  IF shown # "ok" THEN [status |-> shown, progress |-> saved]
             ELSE save_each(ts, saved, user_id, text_id, translations, k + 1,
                            start_position)

Returned(status, pr, user_id, text_id, translations, start_position) ==
    [status |-> status, progress |-> pr, user_id |-> user_id, text_id |-> text_id,
     translations |-> translations, start_position |-> start_position]

\* TranslationServiceApp.process_translation_reply. `if not user_id` and
\* `if not text_id` are truth tests: an id that is None or "" counts as not
\* found, and the text then is that of the user's first record.
process_translation_reply(ts, us, pr, sender, subject, body) ==
    LET user_id == find_sender(us, sender)
        named == text_from_subject(ts, subject)
        text_id == IF Truthy(named) THEN named ELSE pr[user_id][1].text_id
        translations == process_reply(body)
    IN  IF ~Truthy(user_id)
        THEN Returned("unknown_sender", pr, user_id, None, <<>>, 0)
        ELSE IF ~Truthy(named) /\ pr[user_id] = <<>>
        THEN Returned("no_text", pr, user_id, named, <<>>, 0)
        ELSE IF translations = <<>>
        THEN Returned("no_translations", pr, user_id, text_id, <<>>, 0)
        ELSE IF get_progress_status(us, pr, user_id, text_id) # "ok"
        THEN Returned(get_progress_status(us, pr, user_id, text_id), pr,
                      user_id, text_id, translations, 0)
        ELSE IF ~HasText(ts, text_id)
        THEN Returned("KeyError: text", pr, user_id, text_id, translations, 0)
        ELSE LET rec == pr[user_id][get_progress(pr, user_id, text_id)]
                 text == get_text(ts, text_id)
                 start_position == reply_start_position(rec.current_position,
                                                        text.sentences_per_day)
                 saved == save_each(ts, pr, user_id, text_id, translations, 1,
                                    start_position)
             IN  Returned(saved.status, saved.progress, user_id, text_id,
                          translations, start_position)

\* ------------------------------------------- TranslationServiceApp: setup

\* TranslationServiceApp.register_user: `in` is the keyword arguments, with
\* email and phone None when not given (kwargs.get) and the field
\* preferred_method present only when that keyword is passed. A method that
\* is passed is taken as it is, None included; otherwise it follows from the
\* contact fields. Then UserManager.register_user.
app_register_user(us, pr, in) ==
    LET method == IF "preferred_method" \in DOMAIN in THEN in.preferred_method
                  ELSE IF Truthy(in.email) /\ ~Truthy(in.phone) THEN EMAIL
                  ELSE IF Truthy(in.phone) /\ ~Truthy(in.email) THEN SMS
                  ELSE EMAIL
    IN  UserManager_register_user(us, pr,
            [id |-> in.id, email |-> in.email, phone |-> in.phone,
             preferred_method |-> method])

\* TranslationServiceApp.assign_text_to_user: get_text first (KeyError for a
\* text that is not registered), then UserManager.assign_text, then the
\* report, which evaluates text.total_days() (a division by
\* sentences_per_day) after the record was added.
assign_text_to_user(ts, us, pr, user_id, text_id) ==
    IF ~HasText(ts, text_id) THEN [status |-> "KeyError: text", progress |-> pr]
    ELSE LET text == get_text(ts, text_id)
             r == assign_text(us, pr, user_id, text_id, Len(text.sentences))
         IN  IF r.status = "ok" /\ text.sentences_per_day = 0
             THEN [status |-> "ZeroDivisionError", progress |-> r.progress]
             ELSE r

\* TranslationServiceApp.generate_translation_file: get_text (KeyError for a
\* text that is not registered), the merged map, the file, then the status
\* that the report line prints.
generate_translation_file(ts, us, pr, text_id, output_format) ==
    IF ~HasText(ts, text_id)
    THEN [status |-> "KeyError: text", translations |-> <<>>, output |-> <<>>,
          report |-> None]
    ELSE LET text == get_text(ts, text_id)
             translations == get_all_translations(us, pr, text_id)
             r == assemble_translation(text, translations, output_format)
         IN  IF r.status # "ok"
             THEN [status |-> r.status, translations |-> translations,
                   output |-> <<>>, report |-> None]
             ELSE [status |-> "ok", translations |-> translations,
                   output |-> r.output,
                   report |-> get_translation_status(text, translations)]

\* ---------------------------------------------------------------- actions

\* What last_op records of an operation.
Op(op, status, user_id, text_id, targets, translations, start_position) ==
    [op |-> op, status |-> status, user_id |-> user_id, text_id |-> text_id,
     users_to_process |-> targets, translations |-> translations,
     start_position |-> start_position]

\* What the transport does per (user, text) in one cycle.
AllSent == [p \in Pairs |-> "sent"]

OneFails(pair, result) == [p \in Pairs |-> IF p = pair THEN result ELSE "sent"]

\* The daily cycles the model runs: the user_ids argument of
\* send_daily_portions (None: not given) and what the transport does.
CycleInputs ==
    { [user_ids |-> None, delivery |-> AllSent],
      [user_ids |-> None, delivery |-> OneFails(<<"u1", "t1">>, "failed")],
      [user_ids |-> None, delivery |-> OneFails(<<"u1", "t1">>, "error")],
      [user_ids |-> <<>>, delivery |-> OneFails(<<"u2", "t1">>, "failed")],
      [user_ids |-> <<"u1">>, delivery |-> AllSent],
      [user_ids |-> <<"u2", "u1">>, delivery |-> OneFails(<<"u2", "t1">>, "error")],
      [user_ids |-> <<GhostUser, "u1">>, delivery |-> AllSent],
      [user_ids |-> <<"u1", GhostUser>>, delivery |-> AllSent] }

\* The assign_text_to_user calls the model makes.
AssignInputs == {<<"u1", "t1">>, <<"u2", "t1">>, <<GhostUser, "t1">>, <<"u1", "t9">>}

\* Subject lines: the template's subject for title A, the same for title B
\* with a trailing blank, and a subject without the template's prefix.
SubjectA == <<SubjectPrefix, " ", "A">>

SubjectB == <<SubjectPrefix, " ", "B", " ">>

SubjectRe == <<"Re:", " ", "A">>

\* Reply bodies: "[1] a\n[2]b", "[1]b", "[0]a[4]b[1]a", "ab"
BodyTwo == <<"[", "1", "]", " ", "a", "\n", "[", "2", "]", "b">>

BodyOne == <<"[", "1", "]", "b">>

BodyBeyond == <<"[", "0", "]", "a", "[", "4", "]", "b", "[", "1", "]", "a">>

BodyPlain == <<"a", "b">>

\* The replies the model receives: sender, subject and body.
ReplyInputs ==
    { [sender |-> "e1", subject |-> SubjectA, body |-> BodyTwo],
      [sender |-> "e1", subject |-> SubjectA, body |-> BodyOne],
      [sender |-> "e1", subject |-> SubjectA, body |-> BodyBeyond],
      [sender |-> "e1", subject |-> SubjectA, body |-> BodyPlain],
      [sender |-> "e1", subject |-> SubjectRe, body |-> BodyOne],
      [sender |-> "e1", subject |-> SubjectB, body |-> BodyTwo],
      [sender |-> "p2", subject |-> SubjectA, body |-> BodyTwo],
      [sender |-> "p2", subject |-> SubjectRe, body |-> BodyBeyond],
      [sender |-> "nobody", subject |-> SubjectA, body |-> BodyTwo] }

Init ==
    /\ texts = <<>>
    /\ users = <<>>
    /\ progress = <<>>
    /\ clock = 0
    /\ cycle_log = <<>>
    /\ delivered = [p \in Pairs |-> <<>>]
    /\ reply_count = 0
    /\ last_op = Op("init", "ok", None, None, None, <<>>, 0)

\* app.register_text(file_path, title, id=..., sentences_per_day=...)
RegisterText(in) ==
    \E r \in {register_text(texts, in)} :
        /\ texts' = r.texts
        /\ last_op' = Op("register_text", r.status, None, None, None, <<>>, 0)
        /\ cycle_log' = <<>>
        /\ UNCHANGED <<users, progress, clock, delivered, reply_count>>

\* app.register_user(name, id=..., email=..., phone=..., preferred_method=...)
RegisterUser(in) ==
    \E r \in {app_register_user(users, progress, in)} :
        /\ users' = r.users
        /\ progress' = r.progress
        /\ last_op' = Op("register_user", r.status, None, None, None, <<>>, 0)
        /\ cycle_log' = <<>>
        /\ UNCHANGED <<texts, clock, delivered, reply_count>>

\* app.assign_text_to_user(user_id, text_id); last_op names the pair when a
\* record was added.
AssignTextToUser(user_id, text_id) ==
    \E r \in {assign_text_to_user(texts, users, progress, user_id, text_id)} :
        /\ progress' = r.progress
        /\ last_op' = Op("assign_text", r.status,
                         IF r.progress # progress THEN user_id ELSE None,
                         IF r.progress # progress THEN text_id ELSE None,
                         None, <<>>, 0)
        /\ cycle_log' = <<>>
        /\ UNCHANGED <<texts, users, clock, delivered, reply_count>>

\* app.send_daily_portions(user_ids), the clock reading clock + 1
SendDailyPortions(user_ids, delivery) ==
    \E r \in {send_daily_portions(texts, users, progress, delivered,
                                    user_ids, clock + 1, delivery)} :
        /\ clock' = clock + 1
        /\ progress' = r.st.progress
        /\ cycle_log' = r.st.cycle_log
        /\ delivered' = r.st.delivered
        /\ last_op' = Op("send_daily", r.status, None, None,
                         users_to_process(users, user_ids), <<>>, 0)
        /\ UNCHANGED <<texts, users, reply_count>>

\* app.process_translation_reply(sender, subject, body)
ProcessTranslationReply(sender, subject, body) ==
    \E r \in {process_translation_reply(texts, users, progress,
                                          sender, subject, body)} :
        /\ progress' = r.progress
        /\ reply_count' = reply_count + 1
        /\ last_op' = Op("process_reply", r.status, r.user_id, r.text_id, None,
                         r.translations, r.start_position)
        /\ cycle_log' = <<>>
        /\ UNCHANGED <<texts, users, clock, delivered>>

\* The methods of one TranslationServiceApp object, called in any order on
\* that object, as demo.py calls them on its app; the managers keep their
\* state in memory for as long as the object lives. main() builds a new
\* object for each command, so one run of main is one of these calls made
\* from Init.
Next ==
    \/ \E in \in TextInputs : RegisterText(in)
    \/ \E in \in UserInputs : RegisterUser(in)
    \/ \E pair \in AssignInputs : AssignTextToUser(pair[1], pair[2])
    \/ /\ clock < MaxCycles
       /\ \E in \in CycleInputs : SendDailyPortions(in.user_ids, in.delivery)
    \/ /\ reply_count < MaxReplies
       /\ \E in \in ReplyInputs :
             ProcessTranslationReply(in.sender, in.subject, in.body)

Spec == Init /\ [][Next]_vars

\* ------------------------------------------- the progress store on its own

\* The UserManager driven directly, as a caller other than the daily cycle
\* may drive it: register_user, assign_text and update_progress with any
\* position up to MaxPosition and any date up to MaxDate.
MaxPosition == 2

MaxDate == 1

StoreTotalSentences == 3

\* The (user, text) pairs the store is called with.
StorePairs == {<<"u1", "t1">>, <<"u1", "t2">>, <<"u2", "t1">>, <<GhostUser, "t1">>}

\* user_manager.assign_text(user_id, text_id, total_sentences)
AssignText(user_id, text_id) ==
    \E r \in {assign_text(users, progress, user_id, text_id, StoreTotalSentences)} :
        /\ progress' = r.progress
        /\ last_op' = Op("assign_text", r.status,
                         IF r.status = "ok" THEN user_id ELSE None,
                         IF r.status = "ok" THEN text_id ELSE None,
                         None, <<>>, 0)
        /\ cycle_log' = <<>>
        /\ UNCHANGED <<texts, users, clock, delivered, reply_count>>

\* user_manager.update_progress(user_id, text_id, position, sent_date):
\* get_progress raises for a pair without a record, else both fields are set.
UpdateProgress(user_id, text_id, position, sent_date) ==
    \E status \in {get_progress_status(users, progress, user_id, text_id)} :
        /\ progress' = IF status = "ok"
                       THEN update_progress(progress, user_id, text_id,
                                            position, sent_date)
                       ELSE progress
        /\ last_op' = Op("update_progress", status,
                         IF status = "ok" THEN user_id ELSE None,
                         IF status = "ok" THEN text_id ELSE None,
                         None, <<>>, position)
        /\ cycle_log' = <<>>
        /\ UNCHANGED <<texts, users, clock, delivered, reply_count>>

StoreNext ==
    \/ \E in \in UserInputs : RegisterUser(in)
    \/ \E pair \in StorePairs : AssignText(pair[1], pair[2])
    \/ \E pair \in StorePairs, position \in 0..MaxPosition, sent_date \in 1..MaxDate :
          UpdateProgress(pair[1], pair[2], position, sent_date)

StoreSpec == Init /\ [][StoreNext]_vars

\* ----------------------------------------------------------------- claims

\* Whether the store holds a record of the pair, and that record.
HasRecord(pr, user_id, text_id) ==
    user_id \in DOMAIN pr /\ get_progress(pr, user_id, text_id) # 0

RecordOf(pr, user_id, text_id) == pr[user_id][get_progress(pr, user_id, text_id)]

\* A step that is one daily cycle: the cycle is the operation that reads the
\* clock.
CycleStep == clock' = clock + 1 /\ last_op'.op = "send_daily"

\* C1: in a daily cycle every record the cycle visits whose cursor p is below
\* the text's sentence count gets a transport call with the slice
\* dailyPortion(text, p) and exactly the absolute indices p, ..., p + len - 1;
\* when the transport returns success the record's cursor becomes p + len and
\* its last-sent time becomes the time of the cycle. A cycle that completes
\* visits every record of every user it targets.
C1_CycleSendsSliceAndAdvances ==
    [][CycleStep =>
        /\ last_op'.status = "ok" =>
              \A i \in DOMAIN last_op'.users_to_process :
                 \A k \in DOMAIN progress[last_op'.users_to_process[i]] :
                    \E j \in DOMAIN cycle_log' :
                       /\ cycle_log'[j].user_id = last_op'.users_to_process[i]
                       /\ cycle_log'[j].text_id =
                             progress[last_op'.users_to_process[i]][k].text_id
        /\ \A j \in DOMAIN cycle_log' :
              LET e == cycle_log'[j]
                  p == RecordOf(progress, e.user_id, e.text_id).current_position
                  text == get_text(texts, e.text_id)
                  after == RecordOf(progress', e.user_id, e.text_id)
              IN  /\ e.invoked <=> p < Len(text.sentences)
                  /\ e.invoked =>
                        /\ e.sentences = get_daily_portion(text, p)
                        /\ e.sentence_indices =
                              [n \in 1..Len(e.sentences) |-> p + n - 1]
                  /\ e.invoked /\ e.event = "sent" =>
                        /\ after.current_position = p + Len(e.sentences)
                        /\ after.last_sent_date = At(clock')
    ]_vars

\* A cycle has just delivered the final, short slice of a text: one sentence
\* from cursor 2 of a three-sentence text with two sentences per day.
C1_Witness ==
    /\ last_op.op = "send_daily"
    /\ \E j \in DOMAIN cycle_log :
          /\ cycle_log[j].event = "sent"
          /\ cycle_log[j].start_position = 2
          /\ cycle_log[j].sentence_indices = <<2>>
          /\ RecordOf(progress, cycle_log[j].user_id,
                      cycle_log[j].text_id).current_position = 3

\* C2: when the transport returns failure or raises for a record, that
\* record's cursor and last-sent time are the same after the cycle as before.
C2_FailedDeliveryLeavesRecord ==
    [][CycleStep =>
        \A j \in DOMAIN cycle_log' :
           LET e == cycle_log'[j]
               before == RecordOf(progress, e.user_id, e.text_id)
               after == RecordOf(progress', e.user_id, e.text_id)
           IN  e.event \in {"failed", "error"} =>
                  /\ after.current_position = before.current_position
                  /\ after.last_sent_date = before.last_sent_date
    ]_vars

\* A delivery has just failed for a record an earlier cycle had advanced.
C2_Witness ==
    /\ last_op.op = "send_daily"
    /\ \E j \in DOMAIN cycle_log :
          LET rec == RecordOf(progress, cycle_log[j].user_id, cycle_log[j].text_id)
          IN  /\ cycle_log[j].event \in {"failed", "error"}
              /\ cycle_log[j].invoked
              /\ rec.current_position = 2
              /\ rec.last_sent_date = At(clock - 1)

\* C3: a failure on one (user, text), an unregistered targeted user id
\* included, does not stop the cycle: the cycle does not raise, and every
\* record of every registered targeted user is processed.
C3_CycleIsolatesFailures ==
    last_op.op = "send_daily" =>
        /\ last_op.status = "ok"
        /\ \A i \in DOMAIN last_op.users_to_process :
              HasUser(users, last_op.users_to_process[i]) =>
                 \A k \in DOMAIN progress[last_op.users_to_process[i]] :
                    \E j \in DOMAIN cycle_log :
                       /\ cycle_log[j].user_id = last_op.users_to_process[i]
                       /\ cycle_log[j].text_id =
                             progress[last_op.users_to_process[i]][k].text_id

\* C4: a record's cursor never decreases, and it changes only in a cycle
\* whose transport call for that record returned success.
C4_CursorMonotone ==
    [][\A u \in DOMAIN progress : \A k \in DOMAIN progress[u] :
          /\ u \in DOMAIN progress'
          /\ k \in DOMAIN progress'[u]
          /\ progress'[u][k].text_id = progress[u][k].text_id
          /\ progress'[u][k].current_position >= progress[u][k].current_position
          /\ progress'[u][k].current_position # progress[u][k].current_position =>
                /\ CycleStep
                /\ \E j \in DOMAIN cycle_log' :
                      /\ cycle_log'[j].user_id = u
                      /\ cycle_log'[j].text_id = progress[u][k].text_id
                      /\ cycle_log'[j].event = "sent"
    ]_vars

\* A reply was routed to a record whose cursor the cycles had advanced, and
\* the cursor is still where the last cycle put it.
C4_Witness ==
    /\ last_op.op = "process_reply"
    /\ last_op.status = "ok"
    /\ HasRecord(progress, last_op.user_id, last_op.text_id)
    /\ RecordOf(progress, last_op.user_id, last_op.text_id).current_position = 2
    /\ delivered[<<last_op.user_id, last_op.text_id>>] = <<<<0, 1>>>>

\* C5: advance (update_progress) never decreases a record's cursor: a call
\* with a position below the cursor is rejected or changes nothing.
C5_AdvanceNeverDecreases ==
    [][last_op'.op = "update_progress" =>
        \A u \in DOMAIN progress : \A k \in DOMAIN progress[u] :
           progress'[u][k].current_position >= progress[u][k].current_position
    ]_vars

\* C6: the store holds at most one record per (user, text) pair; assigning a
\* pair that already has a record fails with "already translating" and leaves
\* the store, so the record's cursor and translations, as it was.
C6_OneRecordPerPair ==
    [][/\ \A u \in DOMAIN progress' : \A j, k \in DOMAIN progress'[u] :
             progress'[u][j].text_id = progress'[u][k].text_id => j = k
       /\ \A u \in DOMAIN progress : \A k \in DOMAIN progress[u] :
             LET r == assign_text_to_user(texts, users, progress, u,
                                          progress[u][k].text_id)
             IN  /\ r.status = "ValueError: already translating"
                 /\ r.progress = progress
       /\ last_op'.op = "assign_text"
             /\ last_op'.status = "ValueError: already translating" =>
                progress' = progress
    ]_vars

\* A second assignment of a pair has just failed, for a record that had
\* already been advanced and had received a translation.
C6_Witness ==
    /\ last_op.op = "assign_text"
    /\ last_op.status = "ValueError: already translating"
    /\ \E u \in DOMAIN progress : \E k \in DOMAIN progress[u] :
          /\ progress[u][k].current_position > 0
          /\ progress[u][k].translations # <<>>

\* C7: assigning a text to a user who is not registered fails with the
\* unknown-user error and adds no record; a successful assignment adds one
\* record with cursor 0, no last-sent time and no translations, and changes
\* no other record.
C7_AssignCreatesFreshRecord ==
    [][/\ \A u \in (UserIds \cup {GhostUser}) \ Ids(users) : \A t \in TextIds :
             LET r == assign_text(users, progress, u, t, StoreTotalSentences)
             IN  r.status = "KeyError: user" /\ r.progress = progress
       /\ last_op'.op = "assign_text" /\ last_op'.status = "KeyError: user" =>
             progress' = progress
       /\ last_op'.op = "assign_text" /\ last_op'.status = "ok" =>
             LET u == last_op'.user_id
                 t == last_op'.text_id
                 new == progress'[u][Len(progress'[u])]
             IN  /\ HasUser(users, u)
                 /\ ~HasRecord(progress, u, t)
                 /\ Len(progress'[u]) = Len(progress[u]) + 1
                 /\ \A k \in DOMAIN progress[u] : progress'[u][k] = progress[u][k]
                 /\ \A v \in DOMAIN progress : v # u => progress'[v] = progress[v]
                 /\ new.user_id = u
                 /\ new.text_id = t
                 /\ new.current_position = 0
                 /\ new.last_sent_date = {}
                 /\ new.translations = <<>>
                 /\ new.total_sentences = Len(get_text(texts, t).sentences)
    ]_vars

\* An assignment to an unregistered user has just failed, and the store holds
\* a record as an earlier assignment created it.
C7_Witness ==
    /\ last_op.op = "assign_text"
    /\ last_op.status = "KeyError: user"
    /\ \E u \in DOMAIN progress : \E k \in DOMAIN progress[u] :
          /\ progress[u][k].current_position = 0
          /\ progress[u][k].last_sent_date = {}
          /\ progress[u][k].translations = <<>>

\* C8: a reply to the most recently sent batch (its markers number the
\* sentences of that batch, 1 to the batch's length) is stored at exactly the
\* absolute indices the batch was sent under, also when the batch is the
\* final, shorter one.
C8_ReplyStoredAtLastBatch ==
    (/\ last_op.op = "process_reply"
     /\ last_op.status \in {"ok", "IndexError"}
     /\ delivered[<<last_op.user_id, last_op.text_id>>] # <<>>) =>
        LET sent == delivered[<<last_op.user_id, last_op.text_id>>]
            batch == sent[Len(sent)]
            stored == RecordOf(progress, last_op.user_id,
                               last_op.text_id).translations
        IN  DictKeys(last_op.translations) = {n - 1 : n \in 1..Len(batch)} =>
               \A r \in DOMAIN last_op.translations :
                  /\ batch[last_op.translations[r].key + 1] \in DOMAIN stored
                  /\ stored[batch[last_op.translations[r].key + 1]] =
                        last_op.translations[r].value

\* C9: when a reply is routed, the base offset is
\* max(0, cursor - sentencesPerDay) and every parsed relative index r is
\* written under the absolute key base + r.
C9_ReplyWrittenUnderBase ==
    (/\ last_op.op = "process_reply"
     /\ last_op.status \in {"ok", "IndexError"}) =>
        LET rec == RecordOf(progress, last_op.user_id, last_op.text_id)
            text == get_text(texts, last_op.text_id)
            base == IF rec.current_position > text.sentences_per_day
                    THEN rec.current_position - text.sentences_per_day
                    ELSE 0
        IN  /\ last_op.start_position = base
            /\ \A r \in DOMAIN last_op.translations :
                  /\ base + last_op.translations[r].key \in DOMAIN rec.translations
                  /\ rec.translations[base + last_op.translations[r].key] =
                        last_op.translations[r].value

\* C10 as the specification states it: every key of a record's translations
\* is an index of the text, 0 <= k < len(text.sentences).
C10_KeysWithinText ==
    \A u \in DOMAIN progress : \A k \in DOMAIN progress[u] :
       \A key \in DOMAIN progress[u][k].translations :
          /\ 0 <= key
          /\ key < Len(get_text(texts, progress[u][k].text_id).sentences)

\* C10, amended: every key of a record's translations is an integer
\* k >= -1; the range 0 <= k < len(text.sentences) is not enforced.
C10_KeysAtLeastMinusOne ==
    \A u \in DOMAIN progress : \A k \in DOMAIN progress[u] :
       \A key \in DOMAIN progress[u][k].translations : key >= 0 - 1

\* A routed reply has left a record with the key -1 and with a key that is
\* not below the text's sentence count.
C10_Witness ==
    /\ last_op.op = "process_reply"
    /\ \E u \in DOMAIN progress : \E k \in DOMAIN progress[u] :
          /\ (0 - 1) \in DOMAIN progress[u][k].translations
          /\ \E key \in DOMAIN progress[u][k].translations :
                key >= Len(get_text(texts, progress[u][k].text_id).sentences)

\* C11: when the parser yields a non-empty mapping and the sender has a
\* record of the resolved text, routing completes normally and the record
\* holds the key base + r for every parsed r, also when base + r lies beyond
\* the text's sentence count.
C11_RoutingWritesEveryPair ==
    (/\ last_op.op = "process_reply"
     /\ last_op.translations # <<>>
     /\ HasRecord(progress, last_op.user_id, last_op.text_id)) =>
        /\ last_op.status = "ok"
        /\ \A r \in DOMAIN last_op.translations :
              (last_op.start_position + last_op.translations[r].key) \in
                 DOMAIN RecordOf(progress, last_op.user_id,
                                 last_op.text_id).translations

\* C12: a sender or text resolution failure during reply routing is reported
\* and does not leave route as an exception: no reply, whatever its sender,
\* subject and body, ends with the error of a lookup (of the user, of the
\* text, or of the sender's record of the text the subject names).
C12_ResolutionFailuresReported ==
    last_op.op = "process_reply" =>
        last_op.status \notin {"ValueError: not translating", "KeyError: user",
                               "KeyError: text"}

\* ------------------------------------------------ reply routing: the text

\* One user with up to two texts, assigned in either order, and replies
\* whose subjects name a title in several ways. The second text is titled
\* "B" or "B " (with a trailing blank).
RouteInputs ==
    [texts |->
        { [id |-> "t1", title |-> <<"A">>, file_path |-> "three.txt",
           sentences_per_day |-> 2],
          [id |-> "t2", title |-> <<"B">>, file_path |-> "one.txt",
           sentences_per_day |-> 1],
          [id |-> "t2", title |-> <<"B", " ">>, file_path |-> "one.txt",
           sentences_per_day |-> 1] },
     users |->
        { [id |-> "u1", email |-> "e1", phone |-> None, preferred_method |-> EMAIL] },
     assignments |-> {<<"u1", "t1">>, <<"u1", "t2">>},
     replies |->
        { [sender |-> "e1", subject |-> subject, body |-> BodyOne] :
             subject \in {SubjectA, SubjectB, <<SubjectPrefix, "B">>,
                          <<SubjectPrefix, " ", "C">>, SubjectRe} }]

RouteNext ==
    \/ \E in \in RouteInputs.texts : RegisterText(in)
    \/ \E in \in RouteInputs.users : RegisterUser(in)
    \/ \E pair \in RouteInputs.assignments : AssignTextToUser(pair[1], pair[2])
    \/ /\ reply_count < MaxReplies
       /\ \E in \in RouteInputs.replies :
             ProcessTranslationReply(in.sender, in.subject, in.body)

RouteSpec == Init /\ [][RouteNext]_vars

\* The positions in the catalog of the texts with a title.
Titled(ts, title) == {k \in DOMAIN ts : ts[k].title = title}

\* What routing a reply of a registered sender resolves the text to, given
\* the title the subject names (NoTitle when it names none): the first text
\* with that title when its id is truthy (`if not text_id`), else the text of
\* the sender's first record, else None.
ResolvedText(ts, pr, user_id, names_title, title) ==
    LET named == IF names_title /\ Titled(ts, title) # {}
                 THEN ts[CHOOSE k \in Titled(ts, title) :
                            \A j \in Titled(ts, title) : k <= j].id
                 ELSE None
    IN  IF Truthy(named) THEN named
        ELSE IF pr[user_id] # <<>> THEN pr[user_id][1].text_id
        ELSE None

\* Routing resolved the reply to the text, or stopped with the report and
\* wrote nothing when there is no text.
RoutedTo(r, pr, text_id) ==
    IF text_id = None THEN r.status = "no_text" /\ r.progress = pr
    ELSE r.text_id = text_id /\ r.status # "no_text"

\* C13 as the specification states it: the subject names a title when it is
\* exactly "Daily Translation: " followed by the title; the text with that
\* title is used, otherwise the text of the sender's first record, and with
\* no record routing stops with a report and writes nothing.
C13_TextByTemplate ==
    \A in \in RouteInputs.replies :
       Truthy(find_sender(users, in.sender)) =>
          LET subject == in.subject
              matches == /\ Len(subject) >= 2
                         /\ subject[1] = SubjectPrefix
                         /\ subject[2] = " "
          IN  RoutedTo(process_translation_reply(texts, users, progress,
                                                 in.sender, subject, in.body),
                       progress,
                       ResolvedText(texts, progress,
                                    find_sender(users, in.sender), matches,
                                    IF matches THEN SubSeq(subject, 3, Len(subject))
                                    ELSE <<>>))

\* C14: a reply whose sender equals no registered user's email or phone
\* exactly, or whose body the parser maps to nothing, leaves every progress
\* record (cursor, last-sent time, translations) as it was: in every state
\* routing such a reply returns the store unchanged, and every reply step that
\* stops with "unknown sender" or "no translations" leaves it unchanged.
C14_EarlyStopChangesNothing ==
    /\ [](\A in \in ReplyInputs :
             ((\A k \in DOMAIN users :
                   users[k].email # in.sender /\ users[k].phone # in.sender)
              \/ process_reply(in.body) = <<>>) =>
                process_translation_reply(texts, users, progress, in.sender,
                                          in.subject, in.body).progress = progress)
    /\ [][(/\ last_op'.op = "process_reply"
           /\ last_op'.status \in {"unknown_sender", "no_translations"}) =>
             progress' = progress]_vars

\* A reply has just stopped early while the store held a record with a
\* cursor the cycles had advanced and with translations of an earlier reply.
C14_Witness ==
    /\ last_op.op = "process_reply"
    /\ last_op.status \in {"unknown_sender", "no_translations"}
    /\ \E u \in DOMAIN progress : \E k \in DOMAIN progress[u] :
          /\ progress[u][k].current_position > 0
          /\ progress[u][k].last_sent_date # {}

\* ------------------------------------------------- the merge of a text

\* Two users, each reachable by a contact of their own, registered in either
\* order, with records of the same text and of another one, and up to
\* MaxMergeReplies replies.
MaxMergeReplies == 2

MergeInputs ==
    [users |->
        { [id |-> "u1", email |-> "e1", phone |-> None],
          [id |-> "u2", email |-> None, phone |-> "p2"] },
     texts |->
        { [id |-> "t1", title |-> <<"A">>, file_path |-> "three.txt",
           sentences_per_day |-> 2],
          [id |-> "t2", title |-> <<"B">>, file_path |-> "one.txt",
           sentences_per_day |-> 1] },
     assignments |-> {<<"u1", "t1">>, <<"u2", "t1">>, <<"u1", "t2">>},
     replies |->
        { [sender |-> "e1", subject |-> SubjectA, body |-> BodyTwo],
          [sender |-> "e1", subject |-> SubjectA, body |-> BodyOne],
          [sender |-> "p2", subject |-> SubjectA, body |-> BodyTwo],
          [sender |-> "p2", subject |-> SubjectA, body |-> BodyOne],
          [sender |-> "e1", subject |-> SubjectB, body |-> BodyOne] }]

\* user_manager.get_all_translations(text_id)
GetAllTranslations(text_id) ==
    \E merged \in {get_all_translations(users, progress, text_id)} :
        /\ last_op' = Op("get_all_translations", "ok", None, text_id, None,
                         merged, 0)
        /\ cycle_log' = <<>>
        /\ UNCHANGED <<texts, users, progress, clock, delivered, reply_count>>

MergeNext ==
    \/ \E in \in MergeInputs.texts : RegisterText(in)
    \/ \E in \in MergeInputs.users : RegisterUser(in)
    \/ \E pair \in MergeInputs.assignments : AssignTextToUser(pair[1], pair[2])
    \/ /\ reply_count < MaxMergeReplies
       /\ \E in \in MergeInputs.replies :
             ProcessTranslationReply(in.sender, in.subject, in.body)
    \/ \E text_id \in TextIds : GetAllTranslations(text_id)

MergeSpec == Init /\ [][MergeNext]_vars

\* The places in the directory of the users whose record of the text holds
\* the key.
Holders(us, pr, text_id, key) ==
    {i \in DOMAIN us :
        /\ HasRecord(pr, us[i].id, text_id)
        /\ key \in DOMAIN RecordOf(pr, us[i].id, text_id).translations}

\* C15: the merged map of a text has as keys the union of the translations
\* keys of every user's record of that text, and no other key; the value of
\* a key is the one of the user registered last among those whose record
\* holds the key.
C15_MergeLastRegisteredWins ==
    last_op.op = "get_all_translations" =>
        LET merged == last_op.translations
            text_id == last_op.text_id
            keys == UNION {DOMAIN RecordOf(progress, users[i].id,
                                           text_id).translations :
                              i \in {j \in DOMAIN users :
                                        HasRecord(progress, users[j].id, text_id)}}
        IN  /\ DOMAIN merged = keys
            /\ \A key \in keys :
                  \E i \in Holders(users, progress, text_id, key) :
                     /\ \A j \in Holders(users, progress, text_id, key) : j <= i
                     /\ merged[key] =
                           RecordOf(progress, users[i].id, text_id).translations[key]

\* The merge was taken of a text of which two users translated sentence 0
\* differently.
C15_Witness ==
    /\ last_op.op = "get_all_translations"
    /\ Len(users) = 2
    /\ \A i \in {1, 2} : HasRecord(progress, users[i].id, last_op.text_id)
    /\ \A i \in {1, 2} :
          0 \in DOMAIN RecordOf(progress, users[i].id, last_op.text_id).translations
    /\ RecordOf(progress, users[1].id, last_op.text_id).translations[0] #
          RecordOf(progress, users[2].id, last_op.text_id).translations[0]

\* --------------------------------------------------- the daily portion

\* The TextManager on its own: one text, registered from any of the files
\* with any sentences_per_day from -1 to MaxPerDay (register_text takes any
\* integer), and get_daily_portion called with any start from 0 to MaxStart.
MaxPerDay == 4

MaxStart == 4

PortionTextInputs ==
    { [id |-> "t1", title |-> <<"A">>, file_path |-> file_path,
       sentences_per_day |-> sentences_per_day] :
         file_path \in DOMAIN Files,
         sentences_per_day \in {0 - 1} \cup (0..MaxPerDay) }

\* What last_op records of a get_daily_portion call: the arguments, the
\* portion returned, and, when the call is one of a run of calls that started
\* at 0 and went on at position + len(portion) after each non-empty portion,
\* the sentences the run returned so far.
PortionOp(status, text_id, position, portion, walking, covered) ==
    [op |-> "get_daily_portion", status |-> status, text_id |-> text_id,
     position |-> position, portion |-> portion, walking |-> walking,
     covered |-> covered]

\* text_manager.get_daily_portion(text_id, position)
GetDailyPortion(text_id, position) ==
    /\ last_op' =
          IF ~HasText(texts, text_id)
          THEN PortionOp("KeyError: text", text_id, position, <<>>, FALSE, <<>>)
          ELSE LET portion == get_daily_portion(get_text(texts, text_id), position)
                   goes_on == /\ last_op.op = "get_daily_portion"
                              /\ last_op.walking
                              /\ last_op.text_id = text_id
                              /\ last_op.portion # <<>>
                              /\ position = last_op.position + Len(last_op.portion)
               IN  PortionOp("ok", text_id, position, portion,
                             position = 0 \/ goes_on,
                             IF position = 0 THEN portion
                             ELSE IF goes_on THEN last_op.covered \o portion
                             ELSE <<>>)
    /\ cycle_log' = <<>>
    /\ UNCHANGED <<texts, users, progress, clock, delivered, reply_count>>

PortionNext ==
    \/ \E in \in PortionTextInputs : RegisterText(in)
    \/ \E text_id \in {"t1", "t2"}, position \in 0..MaxStart :
          GetDailyPortion(text_id, position)

PortionSpec == Init /\ [][PortionNext]_vars

\* C16: dailyPortion(text, p) returns the sentences at the positions
\* p <= i < min(p + sentencesPerDay, len(sentences)) in their order, and an
\* empty sequence when p >= len(sentences).
C16_PortionIsTheInterval ==
    (last_op.op = "get_daily_portion" /\ last_op.status = "ok") =>
        LET text == get_text(texts, last_op.text_id)
            p == last_op.position
            n == Len(text.sentences)
            hi == IF p + text.sentences_per_day < n
                  THEN p + text.sentences_per_day ELSE n
        IN  /\ last_op.portion =
                  [k \in 1..(IF hi > p THEN hi - p ELSE 0) |-> text.sentences[p + k]]
            /\ p >= n => last_op.portion = <<>>

\* C17: for a registered text, the calls dailyPortion(text, p) with p from 0
\* and p := p + len(last portion) return the sentences of the text in order,
\* each once, and end with an empty portion when all of them were returned.
C17_PortionsCoverTheText ==
    (/\ last_op.op = "get_daily_portion"
     /\ last_op.status = "ok"
     /\ last_op.walking) =>
        LET sentences == get_text(texts, last_op.text_id).sentences
        IN  /\ Len(last_op.covered) <= Len(sentences)
            /\ last_op.covered = SubSeq(sentences, 1, Len(last_op.covered))
            /\ Len(last_op.covered) = last_op.position + Len(last_op.portion)
            /\ last_op.portion = <<>> => last_op.covered = sentences

\* ------------------------------------------------- the cycle at the end

\* The daily cycle over texts short enough to be delivered in full within
\* MaxCycles cycles: t2 has one sentence or none, and a user may be named
\* twice in user_ids.
DailyInputs ==
    [texts |->
        { [id |-> "t1", title |-> <<"A">>, file_path |-> "three.txt", sentences_per_day |-> 2],
          [id |-> "t2", title |-> <<"B">>, file_path |-> "one.txt", sentences_per_day |-> 1],
          [id |-> "t2", title |-> <<"B">>, file_path |-> "empty.txt", sentences_per_day |-> 1] },
     users |->
        { [id |-> "u1", email |-> "e1", phone |-> None, preferred_method |-> EMAIL],
          [id |-> "u2", email |-> None, phone |-> "p2"] },
     assignments |-> {<<"u1", "t1">>, <<"u1", "t2">>, <<"u2", "t2">>},
     cycles |->
        { [user_ids |-> None, delivery |-> AllSent],
          [user_ids |-> None, delivery |-> OneFails(<<"u1", "t2">>, "failed")],
          [user_ids |-> <<"u1", "u1">>, delivery |-> AllSent],
          [user_ids |-> <<"u2">>, delivery |-> OneFails(<<"u2", "t2">>, "error")] }]

CycleNext ==
    \/ \E in \in DailyInputs.texts : RegisterText(in)
    \/ \E in \in DailyInputs.users : RegisterUser(in)
    \/ \E pair \in DailyInputs.assignments : AssignTextToUser(pair[1], pair[2])
    \/ /\ clock < MaxCycles
       /\ \E in \in DailyInputs.cycles : SendDailyPortions(in.user_ids, in.delivery)

CycleSpec == Init /\ [][CycleNext]_vars

\* C18: a progress record whose current_position is at or past the sentence
\* count of its text when a daily cycle starts is skipped by that cycle: the
\* cycle makes no transport call for the pair, and the record's cursor and
\* last_sent_date, and the pair's delivery history, are what they were.
C18_CompletedRecordSkipped ==
    [][CycleStep =>
        \A user_id \in DOMAIN progress :
            \A k \in 1..Len(progress[user_id]) :
                LET rec == progress[user_id][k]
                IN  (/\ HasText(texts, rec.text_id)
                     /\ rec.current_position
                           >= Len(get_text(texts, rec.text_id).sentences)) =>
                        /\ \A j \in DOMAIN cycle_log' :
                              (/\ cycle_log'[j].user_id = user_id
                               /\ cycle_log'[j].text_id = rec.text_id) =>
                                  ~cycle_log'[j].invoked
                        /\ progress'[user_id][k].current_position
                              = rec.current_position
                        /\ progress'[user_id][k].last_sent_date
                              = rec.last_sent_date
                        /\ delivered'[<<user_id, rec.text_id>>]
                              = delivered[<<user_id, rec.text_id>>]]_vars

\* A cycle has skipped a record that an earlier cycle had brought to the end
\* of a text that has sentences: the record stands at the sentence count and
\* still carries the earlier cycle's date, and the cycle that skipped it made
\* a transport call for another record.
C18_Witness ==
    /\ last_op.op = "send_daily"
    /\ \E j \in DOMAIN cycle_log :
          /\ cycle_log[j].event = "completed"
          /\ HasRecord(progress, cycle_log[j].user_id, cycle_log[j].text_id)
          /\ LET rec == RecordOf(progress, cycle_log[j].user_id, cycle_log[j].text_id)
                 text == get_text(texts, cycle_log[j].text_id)
             IN  /\ Len(text.sentences) > 0
                 /\ rec.current_position = Len(text.sentences)
                 /\ rec.last_sent_date # Never
                 /\ rec.last_sent_date # At(clock)
    /\ \E j \in DOMAIN cycle_log : cycle_log[j].invoked

\* C19: when a daily cycle follows a daily cycle with no operation between
\* them, every pair the first cycle delivered a portion to is skipped by the
\* second: no transport call for the pair, and its cursor unchanged.
C19_RerunSkipsDelivered ==
    [][(CycleStep /\ last_op.op = "send_daily") =>
        \A j \in DOMAIN cycle_log :
            cycle_log[j].event = "sent" =>
                /\ \A i \in DOMAIN cycle_log' :
                      (/\ cycle_log'[i].user_id = cycle_log[j].user_id
                       /\ cycle_log'[i].text_id = cycle_log[j].text_id) =>
                          ~cycle_log'[i].invoked
                /\ RecordOf(progress', cycle_log[j].user_id,
                            cycle_log[j].text_id).current_position
                      = RecordOf(progress, cycle_log[j].user_id,
                                 cycle_log[j].text_id).current_position]_vars

\* The members of a list of user ids.
Elements(user_ids) == {user_ids[k] : k \in DOMAIN user_ids}

\* C20: a daily cycle run with an explicit list of user ids makes transport
\* calls only for users of that list and changes the progress records of no
\* other user. Stated of every cycle of CycleInputs that passes a list, run
\* from the current state.
C20_OnlyTargetedUsers ==
    \A in \in CycleInputs :
        in.user_ids # None =>
            \E r \in {send_daily_portions(texts, users, progress, delivered,
                                          in.user_ids, clock + 1, in.delivery)} :
                /\ \A j \in DOMAIN r.st.cycle_log :
                      r.st.cycle_log[j].invoked =>
                          r.st.cycle_log[j].user_id \in Elements(in.user_ids)
                /\ \A user_id \in DOMAIN progress \ Elements(in.user_ids) :
                      r.st.progress[user_id] = progress[user_id]

\* ------------------------------------------------ the reply parser alone

\* MessagingService.process_reply called with every body made of at most
\* MaxChunks pieces: single characters and whole markers.
MaxChunks == 4

Chunks ==
    { <<"[">>, <<"]">>, <<"1">>, <<"2">>, <<".">>, <<"a">>, <<" ">>,
      <<"\r">>, <<"[", "1", "]">>, <<"[", "2", "]">>, <<"2", ".">> }

RECURSIVE BodiesOf(_)
BodiesOf(n) ==
    IF n = 0 THEN {<<>>}
    ELSE LET shorter == BodiesOf(n - 1)
         IN  shorter \cup {b \o c : b \in shorter, c \in Chunks}

Bodies == BodiesOf(MaxChunks)

\* A reply has arrived and waits to be parsed: any body of Bodies.
ParseInit ==
    /\ texts = <<>>
    /\ users = <<>>
    /\ progress = <<>>
    /\ clock = 0
    /\ cycle_log = <<>>
    /\ delivered = [p \in Pairs |-> <<>>]
    /\ reply_count = 0
    /\ \E body \in Bodies : last_op = [op |-> "reply_received", body |-> body]

\* messaging.process_reply(sender, subject, body) for the reply that waits;
\* sender and subject are not read.
ProcessReply ==
    /\ last_op.op = "reply_received"
    /\ last_op' = [op |-> "parse_reply", status |-> "ok", body |-> last_op.body,
                   translations |-> process_reply(last_op.body)]
    /\ UNCHANGED <<texts, users, progress, clock, cycle_log, delivered, reply_count>>

ParseNext == ProcessReply

ParseSpec == ParseInit /\ [][ParseNext]_vars

\* The positions of a body where a bracketed integer marker starts, the
\* number it holds, and its text: what lies between its closing bracket and
\* the next bracketed marker or the end of the body, trimmed.
BracketPositions(body) == {i \in 1..Len(body) : BracketMarkerAt(body, i)}

BracketNumber(body, i) == IntOf(SubSeq(body, i + 1, DigitRunEnd(body, i + 1) - 1))

BracketText(body, i) ==
    LET later == {j \in BracketPositions(body) : j > i}
        stop == IF later = {} THEN Len(body) + 1
                ELSE CHOOSE j \in later : \A l \in later : j <= l
    IN  Strip(SubSeq(body, DigitRunEnd(body, i + 1) + 1, stop - 1))

\* C21: when the body holds at least one bracketed integer marker the result
\* is built from the bracket markers only: its keys are the numbers of the
\* bracket markers less one, and every value is the text of a bracket marker
\* of that number, which runs to the next bracket marker or the end of the
\* body; the numbered-list pattern is used only when no bracket marker
\* matches.
C21_BracketPatternFirst ==
    last_op.op = "parse_reply" =>
        LET body == last_op.body
            result == last_op.translations
            at == BracketPositions(body)
        IN  /\ at # {} =>
                  /\ DictKeys(result) = {BracketNumber(body, i) - 1 : i \in at}
                  /\ \A k \in 1..Len(result) :
                        \E i \in at :
                            /\ result[k].key = BracketNumber(body, i) - 1
                            /\ result[k].value = BracketText(body, i)
            /\ at = {} => result = MatchesToDict(FindAll("dot", body, 1), <<>>)

\* The parser was given a body that holds two bracket markers and a
\* numbered-list marker, and returned two items.
C21_Witness ==
    /\ last_op.op = "parse_reply"
    /\ Cardinality(BracketPositions(last_op.body)) = 2
    /\ \E i \in 1..Len(last_op.body) : DotMarkerAt(last_op.body, i)
    /\ Len(last_op.translations) = 2

\* The parser called with the bodies of Bodies and with bodies whose marker
\* numbers have 4300 digits, the most int() converts, and 4301: "[1]a"
\* before a marker of 4301 digits of the same number, a marker of 4301 digits
\* of another number before "[1]a", a marker of 4300 digits, and a marker
\* of 4301 digits alone.
MarkerInit ==
    /\ texts = <<>>
    /\ users = <<>>
    /\ progress = <<>>
    /\ clock = 0
    /\ cycle_log = <<>>
    /\ delivered = [p \in Pairs |-> <<>>]
    /\ reply_count = 0
    /\ LET marker(zeros, digit) ==
               <<"[">> \o [k \in 1..zeros |-> "0"] \o <<digit, "]", "b">>
           one == <<"[", "1", "]", "a">>
       IN  \E body \in Bodies \cup {one \o marker(4300, "1"), marker(4300, "2") \o one,
                                    marker(4299, "1"), marker(4300, "1")} :
               last_op = [op |-> "reply_received", body |-> body]

MarkerSpec == MarkerInit /\ [][ParseNext]_vars

\* C22 as stated: for every marker the parser matched, with number n, the
\* result maps n - 1 to that marker's text trimmed of whitespace; when
\* neither pattern matches the result is the empty mapping.
C22_EveryMarkerMapped ==
    last_op.op = "parse_reply" =>
        LET matches == Matches(last_op.body)
            result == last_op.translations
        IN  /\ \A m \in 1..Len(matches) :
                  /\ IntOf(matches[m].idx_str) - 1 \in DictKeys(result)
                  /\ result[DictGet(result, IntOf(matches[m].idx_str) - 1)].value
                        = Strip(matches[m].translation)
            /\ matches = <<>> => result = <<>>

\* C22 as the code has it: a marker the parser matched is read when its
\* number has at most 4300 digits and skipped otherwise. For every marker
\* read, with number n, the result has the key n - 1, mapped to the trimmed
\* text of the last marker read of that number; the result has no other key,
\* and when neither pattern matches it is the empty mapping.
C22_LastMarkerOfANumberMapped ==
    last_op.op = "parse_reply" =>
        LET matches == Matches(last_op.body)
            result == last_op.translations
            read == {m \in 1..Len(matches) : Len(matches[m].idx_str) <= 4300}
            number(m) == IntOf(matches[m].idx_str)
        IN  /\ \A m \in read :
                  /\ number(m) - 1 \in DictKeys(result)
                  /\ (\A l \in read : number(l) = number(m) => l <= m) =>
                        result[DictGet(result, number(m) - 1)].value
                           = Strip(matches[m].translation)
            /\ DictKeys(result) = {number(m) - 1 : m \in read}
            /\ matches = <<>> => result = <<>>

\* The parser matched two markers of the same number with different texts,
\* and the result holds one item, the text of the second.
C22_Witness ==
    /\ last_op.op = "parse_reply"
    /\ \E r \in {Matches(last_op.body)} :
          /\ Len(r) = 2
          /\ r[1].idx_str = r[2].idx_str
          /\ Strip(r[1].translation) # Strip(r[2].translation)
          /\ last_op.translations =
                <<[key |-> IntOf(r[2].idx_str) - 1, value |-> Strip(r[2].translation)]>>

\* --------------------------------------------------- the assembler alone

\* TranslationAssembler called with a text and a merged translation map:
\* every text of at most MaxSentences sentences over four sentences (two
\* that end a sentence with '.', '!' or '?' in their last character, one
\* that does not, one that ends in '?') with every map whose keys lie in
\* -1..MaxSentences, and texts of up to MaxTotal equal sentences with the
\* first m of them translated, and one more.
MaxSentences == 3

MaxTotal == 20

RECURSIVE SequencesUpTo(_, _)
SequencesUpTo(S, n) ==
    IF n = 0 THEN {<<>>}
    ELSE LET shorter == SequencesUpTo(S, n - 1)
         IN  shorter \cup {Append(q, x) : q \in shorter, x \in S}

\* A dict whose keys are the integers of K; the value of key 1 is the empty
\* string.
DictOver(K) == [k \in K |-> IF k = 1 THEN <<>> ELSE <<"x">>]

TextOf(sentences) ==
    [id |-> "t1", title |-> <<"A">>, sentences_per_day |-> 2, sentences |-> sentences]

AssembleInputs ==
    { [text_source |-> TextOf(sentences), translations |-> DictOver(K)] :
         sentences \in SequencesUpTo({<<"a", ".">>, <<"b">>, <<"c", "!">>, <<"d", "?">>},
                                       MaxSentences),
         K \in SUBSET ((0 - 1)..MaxSentences) }
    \cup
    UNION { { [text_source |-> TextOf([k \in 1..n |-> <<"a", ".">>]),
               translations |-> DictOver(0..(m - 1))] : m \in 0..(n + 1) } :
            n \in 0..MaxTotal }

AssembleInit ==
    /\ texts = <<>>
    /\ users = <<>>
    /\ progress = <<>>
    /\ clock = 0
    /\ cycle_log = <<>>
    /\ delivered = [p \in Pairs |-> <<>>]
    /\ reply_count = 0
    /\ \E in \in AssembleInputs :
          last_op = [op |-> "assembler_called", text_source |-> in.text_source,
                     translations |-> in.translations]

\* assembler.assemble_translation(text_source, translations, output_format)
AssembleTranslation(output_format) ==
    /\ last_op.op = "assembler_called"
    /\ \E r \in {assemble_translation(last_op.text_source, last_op.translations,
                                      output_format)} :
          last_op' = [op |-> "assemble_translation", status |-> r.status,
                      text_source |-> last_op.text_source,
                      translations |-> last_op.translations,
                      output_format |-> output_format, output |-> r.output]
    /\ UNCHANGED <<texts, users, progress, clock, cycle_log, delivered, reply_count>>

\* assembler.get_translation_status(text_source, translations)
GetTranslationStatus ==
    /\ last_op.op = "assembler_called"
    /\ last_op' = [op |-> "get_translation_status", status |-> "ok",
                   text_source |-> last_op.text_source,
                   translations |-> last_op.translations,
                   report |-> get_translation_status(last_op.text_source,
                                                     last_op.translations)]
    /\ UNCHANGED <<texts, users, progress, clock, cycle_log, delivered, reply_count>>

AssembleNext ==
    \/ \E output_format \in {"txt", "json", "xml"} : AssembleTranslation(output_format)
    \/ GetTranslationStatus

AssembleSpec == AssembleInit /\ [][AssembleNext]_vars

\* A plain assembly that has been made.
PlainAssembled ==
    /\ last_op.op = "assemble_translation"
    /\ last_op.output_format = "txt"

\* The sentence indices of a text that a map has no key for.
Untranslated(text_source, translations) ==
    {i \in 0..(Len(text_source.sentences) - 1) : i \notin DOMAIN translations}

\* C23: plain assembly emits one element per sentence, in sentence order:
\* the merged translation when the sentence's index is a key of the map,
\* else the placeholder [UNTRANSLATED: original] with the original sentence
\* as it is; the placeholders are as many as the indices the map lacks, and
\* keys outside the text change nothing of the output.
C23_PlainAssemblyPerSentence ==
    PlainAssembled =>
        LET sentences == last_op.text_source.sentences
            map == last_op.translations
            output == last_op.output
            within == [i \in {j \in DOMAIN map : j >= 0 /\ j < Len(sentences)}
                         |-> map[i]]
        IN  /\ last_op.status = "ok"
            /\ Len(output) = Len(sentences)
            /\ \A k \in 1..Len(output) :
                  /\ output[k].index = k - 1
                  /\ output[k].text =
                        IF k - 1 \in DOMAIN map THEN map[k - 1]
                        ELSE <<"[UNTRANSLATED: ">> \o sentences[k] \o <<"]">>
            /\ Cardinality({k \in 1..Len(output) :
                              output[k].text # <<>>
                              /\ output[k].text[1] = "[UNTRANSLATED: "})
                  = Cardinality(Untranslated(last_op.text_source, map))
            /\ output = assemble_txt(last_op.text_source, within)

\* A plain assembly of a text of three sentences from a map that has a key
\* of the text, lacks another, and has a key beyond the text.
C23_Witness ==
    /\ PlainAssembled
    /\ Len(last_op.text_source.sentences) = 3
    /\ Cardinality(Untranslated(last_op.text_source, last_op.translations)) = 1
    /\ 3 \in DOMAIN last_op.translations
    /\ \E k \in 1..3 : last_op.output[k].text = <<"x">>

\* C24: in plain assembly every emitted sentence, translation or
\* placeholder, is followed by a line break when the original sentence ends
\* in '.', '!' or '?', and by one space otherwise.
C24_SeparatorAfterEverySentence ==
    PlainAssembled =>
        \A k \in 1..Len(last_op.output) :
            last_op.output[k].after =
                IF EndsSentence(last_op.text_source.sentences[k])
                THEN <<"\n">> ELSE <<" ">>

\* C25: the status reports total_sentences = len(sentences),
\* translated_sentences = the size of the map, remaining_sentences = their
\* difference, and completion_percentage = 100 * translated / total (the
\* float nearest to that ratio), 0 when the text has no sentence.
C25_StatusNumbers ==
    last_op.op = "get_translation_status" =>
        LET total == Len(last_op.text_source.sentences)
            translated == Cardinality(DOMAIN last_op.translations)
            report == last_op.report
        IN  /\ report.total_sentences = total
            /\ report.translated_sentences = translated
            /\ report.remaining_sentences = total - translated
            /\ report.completion_percentage =
                  IF total = 0 THEN FloatZero ELSE FloatDiv(100 * translated, total)

\* ------------------------------------------------------ the whole workflow

\* The workflow of demo.py: a text of five sentences with two sentences per
\* day (or, under the same id, a text of three), two users, daily cycles,
\* the reply "[1] A\n[2] B", and the translation file with its status.
BodyAB == <<"[", "1", "]", " ", "A", "\n", "[", "2", "]", " ", "B">>

WorkflowInputs ==
    [texts |->
        { [id |-> "t1", title |-> <<"A">>, file_path |-> "five.txt", sentences_per_day |-> 2],
          [id |-> "t1", title |-> <<"A">>, file_path |-> "three.txt", sentences_per_day |-> 2] },
     users |->
        { [id |-> "u1", email |-> "e1", phone |-> None, preferred_method |-> EMAIL],
          [id |-> "u2", email |-> None, phone |-> "p2"] },
     assignments |-> {<<"u1", "t1">>, <<"u2", "t1">>},
     cycles |->
        { [user_ids |-> <<"u1">>, delivery |-> OneFails(<<"u2", "t1">>, "error")],
          [user_ids |-> None, delivery |-> AllSent],
          [user_ids |-> None, delivery |-> OneFails(<<"u1", "t1">>, "failed")] },
     replies |->
        { [sender |-> "e1", subject |-> SubjectA, body |-> BodyAB],
          [sender |-> "p2", subject |-> SubjectRe, body |-> BodyAB] }]

\* app.generate_translation_file(text_id, output_format)
GenerateTranslationFile(text_id, output_format) ==
    \E r \in {generate_translation_file(texts, users, progress, text_id,
                                          output_format)} :
        /\ last_op' = [op |-> "generate_translation_file", status |-> r.status,
                       text_id |-> text_id, output_format |-> output_format,
                       translations |-> r.translations, output |-> r.output,
                       report |-> r.report]
        /\ cycle_log' = <<>>
        /\ UNCHANGED <<texts, users, progress, clock, delivered, reply_count>>

WorkflowNext ==
    \/ \E in \in WorkflowInputs.texts : RegisterText(in)
    \/ \E in \in WorkflowInputs.users : RegisterUser(in)
    \/ \E pair \in WorkflowInputs.assignments : AssignTextToUser(pair[1], pair[2])
    \/ /\ clock < MaxCycles
       /\ \E in \in WorkflowInputs.cycles : SendDailyPortions(in.user_ids, in.delivery)
    \/ /\ reply_count < MaxReplies
       /\ \E in \in WorkflowInputs.replies :
             ProcessTranslationReply(in.sender, in.subject, in.body)
    \/ \E output_format \in {"txt", "xml"} :
          GenerateTranslationFile("t1", output_format)

WorkflowSpec == Init /\ [][WorkflowNext]_vars

\* The mapping {0: "A", 1: "B"}.
TranslationsAB == [k \in {0, 1} |-> IF k = 0 THEN <<"A">> ELSE <<"B">>]

\* The text t1 is the one of five sentences, two per day.
FiveByTwo ==
    /\ HasText(texts, "t1")
    /\ Len(get_text(texts, "t1").sentences) = 5
    /\ get_text(texts, "t1").sentences_per_day = 2

\* The only translations on file for t1 are those of a user's reply
\* "[1] A\n[2] B" to that user's first portion.
OnlyFirstReplyOnFile ==
    /\ \E user_id \in DOMAIN progress :
          /\ HasRecord(progress, user_id, "t1")
          /\ RecordOf(progress, user_id, "t1").translations = TranslationsAB
    /\ \A user_id \in DOMAIN progress :
          HasRecord(progress, user_id, "t1") =>
              RecordOf(progress, user_id, "t1").translations \in {<<>>, TranslationsAB}

\* C26: with a text of 5 sentences and 2 sentences per day assigned to a
\* user, the first daily cycle whose transport succeeds for the pair calls
\* the transport with the indices [0, 1] and leaves the cursor at 2; routing
\* the reply "[1] A\n[2] B" of that user after that one delivery stores
\* exactly {0: "A", 1: "B"}; and the status then reports 2 translated of 5
\* sentences, 40 percent.
C26_EndToEnd ==
    /\ [](/\ last_op.op = "generate_translation_file"
          /\ last_op.status = "ok"
          /\ last_op.text_id = "t1"
          /\ FiveByTwo
          /\ OnlyFirstReplyOnFile
          => /\ last_op.translations = TranslationsAB
             /\ last_op.report.translated_sentences = 2
             /\ last_op.report.total_sentences = 5
             /\ last_op.report.completion_percentage = FloatDiv(40, 1))
    /\ [][\A user_id \in UserIds :
            (/\ CycleStep
             /\ FiveByTwo
             /\ HasRecord(progress, user_id, "t1")
             /\ delivered[<<user_id, "t1">>] = <<>>
             /\ \E j \in DOMAIN cycle_log' :
                   /\ cycle_log'[j].user_id = user_id
                   /\ cycle_log'[j].text_id = "t1"
                   /\ cycle_log'[j].event = "sent")
            => /\ \A j \in DOMAIN cycle_log' :
                     (/\ cycle_log'[j].user_id = user_id
                      /\ cycle_log'[j].text_id = "t1"
                      /\ cycle_log'[j].invoked)
                     => cycle_log'[j].sentence_indices = <<0, 1>>
               /\ RecordOf(progress', user_id, "t1").current_position = 2]_vars
    /\ [][\A user_id \in UserIds :
            (/\ last_op'.op = "process_reply"
             /\ reply_count' = reply_count + 1
             /\ last_op'.user_id = user_id
             /\ last_op'.text_id = "t1"
             /\ FiveByTwo
             /\ HasRecord(progress, user_id, "t1")
             /\ delivered[<<user_id, "t1">>] = <<<<0, 1>>>>
             /\ RecordOf(progress, user_id, "t1").translations = <<>>)
            => /\ last_op'.status = "ok"
               /\ RecordOf(progress', user_id, "t1").translations = TranslationsAB]_vars

\* The workflow has run to its end: one cycle delivered [0, 1] to u1, whose
\* cursor is 2 and whose record holds {0: "A", 1: "B"}, and the status of
\* the plain file reports 2 of 5 sentences, 40 percent.
C26_Witness ==
    /\ last_op.op = "generate_translation_file"
    /\ last_op.status = "ok"
    /\ last_op.output_format = "txt"
    /\ last_op.text_id = "t1"
    /\ FiveByTwo
    /\ clock = 1
    /\ delivered[<<"u1", "t1">>] = <<<<0, 1>>>>
    /\ HasRecord(progress, "u1", "t1")
    /\ RecordOf(progress, "u1", "t1").current_position = 2
    /\ RecordOf(progress, "u1", "t1").translations = TranslationsAB
    /\ last_op.report.translated_sentences = 2
    /\ last_op.report.total_sentences = 5
    /\ last_op.report.completion_percentage = FloatDiv(40, 1)

\* C27: for every registered text, total_days is defined and
\* sentences_per_day * (total_days - 1) < len(sentences)
\*                                     <= sentences_per_day * total_days,
\* whatever sentences_per_day the registration was given.
C27_TotalDaysBrackets ==
    \A k \in 1..Len(texts) :
        /\ texts[k].sentences_per_day # 0
        /\ texts[k].sentences_per_day * (total_days(texts[k]) - 1)
              < Len(texts[k].sentences)
        /\ Len(texts[k].sentences)
              <= texts[k].sentences_per_day * total_days(texts[k])

\* C28: registering a text or a user under an id that is already registered
\* fails with the duplicate-id error (ValueError), and registering a text
\* under a new id whose file does not exist fails with FileNotFoundError; a
\* registration that fails leaves the catalog, the directory and every
\* progress record as they were. Stated of every registration of the model
\* run from the current state, and of every registration step taken.
C28_FailedRegistrationChangesNothing ==
    /\ [](/\ \A in \in TextInputs :
               \E r \in {register_text(texts, in)} :
                   /\ in.id \in Ids(texts) =>
                         r.status = "ValueError: already exists"
                   /\ (in.id \notin Ids(texts) /\ in.file_path \notin DOMAIN Files) =>
                         r.status = "FileNotFoundError"
                   /\ r.status # "ok" => r.texts = texts
          /\ \A in \in UserInputs :
               \E r \in {app_register_user(users, progress, in)} :
                   /\ in.id \in Ids(users) =>
                         r.status = "ValueError: already exists"
                   /\ r.status # "ok" => (r.users = users /\ r.progress = progress))
    /\ [][(/\ last_op'.op \in {"register_text", "register_user"}
           /\ last_op'.status # "ok")
          => (texts' = texts /\ users' = users /\ progress' = progress)]_vars

\* A user's registration under an id of the directory has just failed as a
\* duplicate while that user has a record with translations and an advanced
\* cursor, and a text is in the catalog.
C28_Witness ==
    /\ last_op.op = "register_user"
    /\ last_op.status = "ValueError: already exists"
    /\ texts # <<>>
    /\ \E user_id \in DOMAIN progress :
          /\ progress[user_id] # <<>>
          /\ progress[user_id][1].current_position > 0
          /\ progress[user_id][1].translations # <<>>

\* ------------------------------------------------------ the contact fields

\* Registrations with every combination of contact fields (None: not given;
\* "": an empty string) and preferred method (not passed, or passed as EMAIL,
\* SMS or None), one text, and daily cycles whose transport does not raise.
ContactInputs ==
    [users |->
        { [id |-> id, email |-> email, phone |-> phone] :
             id \in UserIds, email \in {None, "", "e1"}, phone \in {None, "p2"} }
        \cup
        { [id |-> id, email |-> email, phone |-> phone,
           preferred_method |-> preferred_method] :
             id \in UserIds, email \in {None, "", "e1"}, phone \in {None, "p2"},
             preferred_method \in {EMAIL, SMS, None} },
     texts |->
        { [id |-> "t1", title |-> <<"A">>, file_path |-> "three.txt", sentences_per_day |-> 2] },
     assignments |-> {<<"u1", "t1">>, <<"u2", "t1">>},
     cycles |->
        { [user_ids |-> None, delivery |-> AllSent],
          [user_ids |-> <<"u2">>, delivery |-> OneFails(<<"u2", "t1">>, "failed")] }]

ContactNext ==
    \/ \E in \in ContactInputs.texts : RegisterText(in)
    \/ \E in \in ContactInputs.users : RegisterUser(in)
    \/ \E pair \in ContactInputs.assignments : AssignTextToUser(pair[1], pair[2])
    \/ /\ clock < MaxCycles
       /\ \E in \in ContactInputs.cycles : SendDailyPortions(in.user_ids, in.delivery)

ContactSpec == Init /\ [][ContactNext]_vars

\* C29: a registration ends up with the method passed, or EMAIL unless only a
\* phone is given. In every reachable state every user of the directory has an email
\* when the preferred method is EMAIL and a phone when it is SMS; a
\* registration whose method lacks its contact field fails and adds no user
\* and no progress list; and no transport call of a daily cycle fails for a
\* missing contact field: the dispatch to a user with the method EMAIL or SMS
\* returns what the transport returns, and the only errors a cycle logs are
\* those of users stored with neither method (registered with the method
\* passed as None), which the dispatch refuses as unsupported.
C29_ContactInvariant ==
    /\ [](/\ \A k \in 1..Len(users) :
               /\ users[k].preferred_method = EMAIL =>
                     users[k].email \notin {None, ""}
               /\ users[k].preferred_method = SMS =>
                     users[k].phone \notin {None, ""}
               /\ users[k].preferred_method \in {EMAIL, SMS} =>
                     \A result \in Results :
                         send_daily_portion(users[k], result) = result
          /\ \A in \in ContactInputs.users :
               LET method == IF "preferred_method" \in DOMAIN in
                             THEN in.preferred_method
                             ELSE IF in.phone \notin {None, ""} /\ in.email \in {None, ""}
                             THEN SMS
                             ELSE EMAIL
               IN  (\/ method = EMAIL /\ in.email \in {None, ""}
                    \/ method = SMS /\ in.phone \in {None, ""}) =>
                   \E r \in {app_register_user(users, progress, in)} :
                       /\ r.status \in {"ValueError: contact required",
                                        "ValueError: already exists"}
                       /\ r.users = users
                       /\ r.progress = progress
          /\ \A j \in DOMAIN cycle_log :
               cycle_log[j].event = "error" =>
                   get_user(users, cycle_log[j].user_id).preferred_method
                       \notin {EMAIL, SMS})
    /\ [][(last_op'.op = "register_user" /\ last_op'.status # "ok")
          => (users' = users /\ progress' = progress)]_vars

\* A daily cycle has delivered by email to one user and by SMS to another,
\* the second registered with a phone only and no method given.
C29_Witness ==
    /\ last_op.op = "send_daily"
    /\ Len(users) = 2
    /\ \E k \in 1..2 :
          /\ users[k].preferred_method = SMS
          /\ users[k].email = None
    /\ \E k \in 1..2 : users[k].preferred_method = EMAIL
    /\ \A k \in 1..2 :
          \E j \in DOMAIN cycle_log :
              cycle_log[j].user_id = users[k].id /\ cycle_log[j].event = "sent"

\* ------------------------------------------------- the sentences of a text

\* C30: every step of the workflow (registration, assignment, daily cycle,
\* reply routing, and the generation of a file with its merge, assembly and
\* status) leaves every registered text in the catalog with the same id and
\* the same sentences, in the same order and number; the catalog only grows.
C30_SentencesFixedAtRegistration ==
    [][/\ Len(texts') >= Len(texts)
       /\ \A k \in 1..Len(texts) :
             /\ texts'[k].id = texts[k].id
             /\ texts'[k].sentences = texts[k].sentences]_vars

\* A file was generated for a text of three sentences after a delivery, a
\* stored reply and a second registration under the same id were attempted.
C30_Witness ==
    /\ last_op.op = "generate_translation_file"
    /\ last_op.status = "ok"
    /\ Len(texts) = 1
    /\ texts[1].sentences = parse_text("three.txt")
    /\ clock >= 1
    /\ reply_count >= 1
    /\ \E user_id \in UserIds :
          /\ HasRecord(progress, user_id, "t1")
          /\ DOMAIN RecordOf(progress, user_id, "t1").translations # {}

\* ------------------------------------------------- the cursor of a record

\* Daily cycles over texts registered with any sentences_per_day, zero and
\* negative included, with transports that fail or raise for one pair and a
\* user named twice in user_ids.
CursorInputs ==
    [texts |->
        { [id |-> "t1", title |-> <<"A">>, file_path |-> "three.txt",
           sentences_per_day |-> sentences_per_day] :
             sentences_per_day \in {0 - 2, 0 - 1, 0, 1, 2, 4} }
        \cup { [id |-> "t2", title |-> <<"B">>, file_path |-> "one.txt",
                sentences_per_day |-> 1] },
     users |->
        { [id |-> "u1", email |-> "e1", phone |-> None, preferred_method |-> EMAIL],
          [id |-> "u2", email |-> None, phone |-> "p2"] },
     assignments |-> {<<"u1", "t1">>, <<"u1", "t2">>, <<"u2", "t1">>},
     cycles |->
        { [user_ids |-> None, delivery |-> AllSent],
          [user_ids |-> None, delivery |-> OneFails(<<"u1", "t1">>, "failed")],
          [user_ids |-> <<"u1", "u1">>, delivery |-> OneFails(<<"u1", "t2">>, "error")] }]

CursorNext ==
    \/ \E in \in CursorInputs.texts : RegisterText(in)
    \/ \E in \in CursorInputs.users : RegisterUser(in)
    \/ \E pair \in CursorInputs.assignments : AssignTextToUser(pair[1], pair[2])
    \/ /\ clock < MaxCycles
       /\ \E in \in CursorInputs.cycles : SendDailyPortions(in.user_ids, in.delivery)

CursorSpec == Init /\ [][CursorNext]_vars

\* C31: in every reachable state each progress record has
\* 0 <= current_position <= len(text.sentences), and the index lists of the
\* successful transport calls for the record, one after the other, are
\* exactly 0, 1, ..., current_position - 1: every index below the cursor
\* delivered once, in increasing order, and none at or past it.
C31_CursorIsDeliveredPrefix ==
    \A user_id \in DOMAIN progress :
        \A k \in 1..Len(progress[user_id]) :
            LET rec == progress[user_id][k]
                calls == delivered[<<user_id, rec.text_id>>]
                RECURSIVE Joined(_)
                Joined(lists) ==
                    IF lists = <<>> THEN <<>> ELSE Head(lists) \o Joined(Tail(lists))
            IN  /\ HasText(texts, rec.text_id)
                /\ 0 <= rec.current_position
                /\ rec.current_position
                      <= Len(get_text(texts, rec.text_id).sentences)
                /\ Joined(calls) = Range(0, rec.current_position)

\* A record stands at the end of a text of three sentences registered with a
\* negative sentences_per_day, after two successful transport calls, while a
\* record of another user stands at the start of the same text.
C31_Witness ==
    /\ HasText(texts, "t1")
    /\ get_text(texts, "t1").sentences_per_day < 0
    /\ HasRecord(progress, "u1", "t1")
    /\ HasRecord(progress, "u2", "t1")
    /\ RecordOf(progress, "u1", "t1").current_position >= 2
    /\ Len(delivered[<<"u1", "t1">>]) = 2
    /\ RecordOf(progress, "u2", "t1").current_position = 0
    /\ last_op.op = "send_daily"

\* ------------------------------------------------ cycles that keep running

\* C32: daily cycles that keep being run with a transport that succeeds bring
\* every assigned record to the sentence count of its text. From every
\* reachable state, after as many successive cycles for all users as the
\* record's text has sentences, each with every transport call returning
\* True, the record stands at the sentence count, and one more cycle makes no
\* transport call for it and leaves it there.
C32_EveryRecordCompletes ==
    \A user_id \in DOMAIN progress :
       \A k \in 1..Len(progress[user_id]) :
          LET text_id == progress[user_id][k].text_id
              total == Len(get_text(texts, text_id).sentences)
              RECURSIVE cycles(_, _)
              cycles(st, n) ==
                  IF n = 0 THEN st
                  ELSE cycles(send_daily_portions(texts, users, st.progress,
                                                  st.delivered, None,
                                                  clock + st.ran + 1, AllSent).st
                                  @@ [ran |-> st.ran + 1],
                              n - 1)
              start == [progress |-> progress, cycle_log |-> <<>>,
                        delivered |-> delivered, ran |-> 0]
              done == cycles(start, total)
              after == cycles(done, 1)
          IN  /\ done.progress[user_id][k].current_position = total
              /\ after.progress[user_id][k] = done.progress[user_id][k]
              /\ \A j \in DOMAIN after.cycle_log :
                    (after.cycle_log[j].user_id = user_id
                        /\ after.cycle_log[j].text_id = text_id)
                    => ~after.cycle_log[j].invoked

\* ------------------------------------------ replies to the message as shown

\* C33: for an email user whose latest successful delivery of a text showed
\* the lines "[idx+1] sentence", the reply that repeats each bracket number
\* as shown, followed by a translation, is routed without error and each
\* translation is stored under the index of the sentence its number was
\* shown next to, whichever batch of the text the delivery was.
C33_ReplyAsShownStoredAtShownIndex ==
    \A k \in 1..Len(users) :
        \A text_id \in TextIds :
            (/\ users[k].preferred_method = EMAIL
             /\ HasText(texts, text_id)
             /\ HasRecord(progress, users[k].id, text_id)
             /\ delivered[<<users[k].id, text_id>>] # <<>>) =>
                LET sent == delivered[<<users[k].id, text_id>>]
                    batch == sent[Len(sent)]
                    text == get_text(texts, text_id)
                    shown == format_message_body(
                                 [i \in 1..Len(batch) |-> text.sentences[batch[i] + 1]],
                                 batch)
                    answer == <<"A", "B", "C", "D">>
                    number(line) ==
                        SubSeq(line, 1, CHOOSE j \in 1..Len(line) :
                                            /\ line[j] = "]"
                                            /\ \A h \in 1..(j - 1) : line[h] # "]")
                    RECURSIVE reply(_)
                    reply(i) ==
                        IF i > Len(shown) THEN <<>>
                        ELSE number(shown[i]) \o <<" ", answer[i], "\n">> \o reply(i + 1)
                IN  \E r \in {process_translation_reply(
                                 texts, users, progress, users[k].email,
                                 <<SubjectPrefix, " ">> \o text.title, reply(1))} :
                        batch # <<>> =>
                            /\ r.status = "ok"
                            /\ r.user_id = users[k].id
                            /\ r.text_id = text_id
                            /\ \A i \in 1..Len(batch) :
                                  LET stored == RecordOf(r.progress, users[k].id,
                                                         text_id).translations
                                  IN  /\ batch[i] \in DOMAIN stored
                                      /\ stored[batch[i]] = <<answer[i]>>

\* ------------------------------------------- status against the plain file

\* C34: in every reachable state, for every registered text and the merged
\* map of its translations, the status reports as remaining_sentences the
\* number of [UNTRANSLATED: ...] placeholders the plain assembly writes for
\* the same text and map, and 0 <= translated_sentences <= total_sentences
\* (so that the percentage is between 0 and 100).
C34_StatusAgreesWithAssembly ==
    \A k \in 1..Len(texts) :
        \E map \in {get_all_translations(users, progress, texts[k].id)} :
            LET report == get_translation_status(texts[k], map)
                output == assemble_txt(texts[k], map)
                placeholders ==
                    {i \in 1..Len(output) :
                        /\ output[i].text # <<>>
                        /\ output[i].text[1] = "[UNTRANSLATED: "}
            IN  /\ report.remaining_sentences = Cardinality(placeholders)
                /\ 0 <= report.translated_sentences
                /\ report.translated_sentences <= report.total_sentences

====
